---- MODULE Spec2Model ----
(***************************************************************************)
(* A model of s4, the terminal browser for S3 buckets: the bubbletea       *)
(* Model/Update state machine, the commands it dispatches, and the object  *)
(* store and local directory tree those commands act on.                   *)
(*                                                                         *)
(* Strings are sequences of tokens.  In keys, names, paths and the rename  *)
(* buffer a token is one ASCII character, so that an index into the        *)
(* sequence is the byte index of the Go string.  The texts of messages,    *)
(* which the program never indexes, use the fixed parts of their format    *)
(* strings as single tokens.                                               *)
(***************************************************************************)
EXTENDS Integers, Sequences, FiniteSets, TLC

-----------------------------------------------------------------------------
(* Bounds of the model *)

\* commands the user starts at most in one run
MaxStarted == 2
\* characters of the names the user types at most
MaxName == 2
\* objects the bucket holds at most; a put or copy into a full bucket fails
MaxStore == 6
\* keys the user marks at most at one time
MaxYank == 2

-----------------------------------------------------------------------------
(* Strings: package strings and path/filepath on token sequences *)

Str(t) == <<t>>

\* the characters of the model in increasing byte order
Alphabet == <<" ", "-", ".", "/", "1", "2", "3", "4", "5", "6", "_",
              "a", "b", "c", "d", "f", "o", "p", "q", "s", "y">>

Characters == {Alphabet[i] : i \in 1..Len(Alphabet)}

RankOf == [t \in Characters |-> CHOOSE i \in 1..Len(Alphabet) : Alphabet[i] = t]

Rank(t) == RankOf[t]

\* Go's < on strings: bytewise lexicographic
RECURSIVE StrLess(_, _)
StrLess(a, b) ==
    IF b = <<>> THEN FALSE
    ELSE IF a = <<>> THEN TRUE
    ELSE IF Head(a) = Head(b) THEN StrLess(Tail(a), Tail(b))
    ELSE Rank(Head(a)) < Rank(Head(b))

HasPrefix(s, p) == Len(s) >= Len(p) /\ SubSeq(s, 1, Len(p)) = p

HasSuffix(s, x) == Len(s) >= Len(x) /\ SubSeq(s, Len(s) - Len(x) + 1, Len(s)) = x

TrimSuffix(s, x) == IF HasSuffix(s, x) THEN SubSeq(s, 1, Len(s) - Len(x)) ELSE s

ContainsTok(s, t) == \E i \in 1..Len(s) : s[i] = t

\* position of the first t in s, 0 when there is none
IndexTok(s, t) ==
    IF ContainsTok(s, t) THEN CHOOSE i \in 1..Len(s) : s[i] = t /\ \A j \in 1..(i-1) : s[j] # t
    ELSE 0

\* position of the last t in s, 0 when there is none
LastIndexTok(s, t) ==
    IF ContainsTok(s, t) THEN CHOOSE i \in 1..Len(s) : s[i] = t /\ \A j \in (i+1)..Len(s) : s[j] # t
    ELSE 0

\* strings.Split(s, sep) for a separator of one token
RECURSIVE Split(_, _)
Split(s, sep) ==
    LET i == IndexTok(s, sep) IN
    IF i = 0 THEN <<s>>
    ELSE <<SubSeq(s, 1, i - 1)>> \o Split(SubSeq(s, i + 1, Len(s)), sep)

\* strings.Join(parts, sep)
RECURSIVE Join(_, _)
Join(parts, sep) ==
    IF parts = <<>> THEN <<>>
    ELSE IF Len(parts) = 1 THEN parts[1]
    ELSE parts[1] \o sep \o Join(Tail(parts), sep)

RECURSIVE StripTrailingSlashes(_)
StripTrailingSlashes(p) ==
    IF p # <<>> /\ p[Len(p)] = "/" THEN StripTrailingSlashes(SubSeq(p, 1, Len(p) - 1)) ELSE p

\* filepath.Base
Base(p) ==
    IF p = <<>> THEN <<".">>
    ELSE LET q == StripTrailingSlashes(p) IN
         IF q = <<>> THEN <<"/">>
         ELSE SubSeq(q, LastIndexTok(q, "/") + 1, Len(q))

\* filepath.Ext: the suffix from the last dot of the last element
Ext(p) ==
    LET d == LastIndexTok(p, ".")
        s == LastIndexTok(p, "/")
    IN  IF d > s THEN SubSeq(p, d, Len(p)) ELSE <<>>

\* filepath.Dir of a clean relative path: "." when it has no separator
Dir(p) ==
    LET s == LastIndexTok(p, "/") IN
    IF s = 0 THEN <<".">> ELSE SubSeq(p, 1, s - 1)

\* filepath.Join(dir, name) of a clean relative dir and a plain name
JoinPath(dir, name) ==
    IF dir = <<".">> THEN name ELSE dir \o <<"/">> \o name

\* strconv: %d of a small positive number
Digits == <<"1", "2", "3", "4", "5", "6">>

Itoa(n) == <<Digits[n]>>

-----------------------------------------------------------------------------
(* The object store (the bucket) and S3Client *)

S3Object(key, size, lastModified, isDir) ==
    [Key |-> key, Size |-> size, LastModified |-> lastModified, IsDir |-> isDir]

\* the keys of a set in increasing order, as S3 returns them
RECURSIVE SortedKeys(_)
SortedKeys(S) ==
    IF S = {} THEN <<>>
    ELSE LET k == CHOOSE x \in S : \A y \in S \ {x} : StrLess(x, y)
         IN  <<k>> \o SortedKeys(S \ {k})

\* what follows prefix in key k
AfterPrefix(k, prefix) == SubSeq(k, Len(prefix) + 1, Len(k))

\* ListObjectsV2 with Delimiter "/": the common prefixes one level below prefix
CommonPrefixes(st, prefix) ==
    { prefix \o SubSeq(AfterPrefix(k, prefix), 1, IndexTok(AfterPrefix(k, prefix), "/")) :
        k \in { x \in DOMAIN st : HasPrefix(x, prefix) /\ ContainsTok(AfterPrefix(x, prefix), "/") } }

\* ListObjectsV2 with Delimiter "/": the keys with nothing below prefix but a name
Contents(st, prefix) ==
    { k \in DOMAIN st : HasPrefix(k, prefix) /\ ~ContainsTok(AfterPrefix(k, prefix), "/") }

SeqMap(Op(_), s) == [i \in 1..Len(s) |-> Op(s[i])]

SeqFilter(Test(_), s) == SelectSeq(s, Test)

\* S3Client.ListObjects on a call that succeeds: directories, then files
ListObjects(st, prefix) ==
    LET dirKeys == SeqFilter(LAMBDA k : k # <<>>,
                       SeqMap(LAMBDA cp : TrimSuffix(cp, <<"/">>), SortedKeys(CommonPrefixes(st, prefix))))
        fileKeys == SeqFilter(LAMBDA k : ~HasSuffix(k, <<"/">>), SortedKeys(Contents(st, prefix)))
    IN  SeqMap(LAMBDA k : S3Object(k, 0, <<>>, TRUE), dirKeys)
        \o SeqMap(LAMBDA k : S3Object(k, st[k].Size, st[k].LastModified, FALSE), fileKeys)

\* a comparison by key alone
ObjectLessByKey(a, b) == StrLess(a.Key, b.Key)

\* the comparison loadObjects sorts with: directories first, then by key
ObjectLess(a, b) ==
    IF a.IsDir # b.IsDir THEN a.IsDir ELSE StrLess(a.Key, b.Key)

\* sort.Slice(objects, less)
RECURSIVE InsertSorted(_, _, _)
InsertSorted(Less(_, _), x, s) ==
    IF s = <<>> THEN <<x>>
    ELSE IF Less(x, Head(s)) THEN <<x>> \o s
    ELSE <<Head(s)>> \o InsertSorted(Less, x, Tail(s))

RECURSIVE SortSlice(_, _)
SortSlice(Less(_, _), s) ==
    IF s = <<>> THEN <<>> ELSE InsertSorted(Less, Head(s), SortSlice(Less, Tail(s)))

\* the time S3 stamps on an object written while the program runs
StoreNow == <<"5">>

StoreObject(size, lastModified, data) ==
    [Size |-> size, LastModified |-> lastModified, Data |-> data]

\* S3Client.PutObject on a call that succeeds
PutObject(st, key, data) ==
    [k \in DOMAIN st \cup {key} |-> IF k = key THEN StoreObject(Len(data), StoreNow, data) ELSE st[k]]

\* S3Client.CopyObject on a call that succeeds
CopyObject(st, sourceKey, destKey) ==
    [k \in DOMAIN st \cup {destKey} |->
        IF k = destKey THEN StoreObject(st[sourceKey].Size, StoreNow, st[sourceKey].Data) ELSE st[k]]

\* S3Client.DeleteObject on a call that succeeds
DeleteObject(st, key) == [k \in DOMAIN st \ {key} |-> st[k]]

\* a copy can succeed when its source exists and the bucket has room for the result
CanCopy(st, sourceKey, destKey) ==
    /\ sourceKey \in DOMAIN st
    /\ (destKey \in DOMAIN st \/ Cardinality(DOMAIN st) < MaxStore)

CanPut(st, key) == key \in DOMAIN st \/ Cardinality(DOMAIN st) < MaxStore

\* the bucket the browser is started on
InitStore ==
    LET a == <<"a">>
        da == <<"d", "/", "a">>
        db == <<"d", "/", "b">>
    IN  [k \in {a, da, db} |->
            IF k = a THEN StoreObject(3, <<"1">>, <<"a", "\n", "b">>)
            ELSE IF k = da THEN StoreObject(1, <<"2">>, <<"0xff">>)
            ELSE StoreObject(2, <<"3">>, <<"a", "\n">>)]

\* a bucket with two files to copy, one with an extension and one without
PasteStore ==
    [k \in {<<"a", ".", "b">>, <<"c">>} |-> StoreObject(1, <<"1">>, <<"a">>)]

\* a bucket whose root lists more entries than a small window shows
WideStore ==
    [k \in {<<"a">>, <<"b">>, <<"c">>, <<"f">>, <<"p">>, <<"q">>} |->
        StoreObject(1, <<"1">>, <<"a">>)]

-----------------------------------------------------------------------------
(* The local directory tree the upload picker shows *)

LocalItem(name, isDir, size) == [Name |-> name, IsDir |-> isDir, Size |-> size]

\* os.ReadDir: the entries of each readable directory, sorted by name
LocalTree ==
    LET cwd == <<".">>
        sub == <<"s">>
        par == <<".", ".">>
    IN  [p \in {cwd, sub, par} |->
            IF p = cwd THEN << LocalItem(<<".", "a">>, FALSE, 1), LocalItem(<<"f">>, FALSE, 1),
                               LocalItem(<<"s">>, TRUE, 0) >>
            ELSE IF p = sub THEN [i \in 1..6 |-> LocalItem(<<Digits[i]>>, FALSE, 2)]
                                     \o << LocalItem(<<"a">>, FALSE, 2) >>
            ELSE << LocalItem(<<"-">>, TRUE, 0), LocalItem(<<"d">>, TRUE, 0) >>]

\* os.ReadFile: the bytes of each readable local file
LocalFiles ==
    LET f == <<"f">>
        sb == <<"s", "/", "1">>
    IN  [p \in {f, sb} |-> IF p = f THEN <<"a">> ELSE <<"a", "\n", "b">>]

LocalItemLess(a, b) ==
    IF a.IsDir # b.IsDir THEN a.IsDir ELSE StrLess(a.Name, b.Name)

-----------------------------------------------------------------------------
(* State *)

VARIABLES
    m,          \* the Model value the event loop holds
    arrays,     \* the backing arrays of the yankedFiles slices still referenced
    store,      \* the bucket: key -> object
    cmds,       \* the commands dispatched and not yet consumed, oldest first
    program,    \* "running", or how the program ended: "quit" or "panic"
    started     \* the number of commands key presses have started

vars == <<m, arrays, store, cmds, program, started>>

\* ViewMode
ViewBrowser == "ViewBrowser"
ViewPreview == "ViewPreview"
ViewHelp == "ViewHelp"
ViewUpload == "ViewUpload"
ViewRename == "ViewRename"
ViewConfirm == "ViewConfirm"

ViewModes == {ViewBrowser, ViewPreview, ViewHelp, ViewUpload, ViewRename, ViewConfirm}

\* error values: nil, or an error with its text
NoError == [isNil |-> TRUE, text |-> <<>>]

Errorf(text) == [isNil |-> FALSE, text |-> text]

\* interface{} values: nil, or a string
NilData == [isString |-> FALSE, s |-> <<>>]

StringData(s) == [isString |-> TRUE, s |-> s]

DirStats(size, lastModified, sizeTimeout, dateTimeout) ==
    [Size |-> size, LastModified |-> lastModified, SizeTimeout |-> sizeTimeout, DateTimeout |-> dateTimeout]

\* a slice header: the backing array (0: none), the length and the capacity
NilSlice == [arr |-> 0, len |-> 0, cap |-> 0]

EmptyMap == [k \in {} |-> DirStats(0, <<>>, FALSE, FALSE)]

NewModel ==
    [ currentPath     |-> <<>>,
      objects         |-> <<>>,
      cursor          |-> 0,
      viewMode        |-> ViewBrowser,
      previewContent  |-> <<>>,
      previewFileName |-> <<>>,
      previewLines    |-> <<>>,
      previewScroll   |-> 0,
      localItems      |-> <<>>,
      localPath       |-> <<>>,
      err             |-> NoError,
      statusMessage   |-> <<>>,
      loading         |-> TRUE,
      height          |-> 0,
      yankedFiles     |-> NilSlice,
      renameInput     |-> <<>>,
      renameOriginal  |-> <<>>,
      renameCursor    |-> 0,
      scrollOffset    |-> 0,
      confirmAction   |-> <<>>,
      confirmTarget   |-> <<>>,
      confirmData     |-> NilData,
      dirStatsCache   |-> EmptyMap ]

-----------------------------------------------------------------------------
(* Slices of strings: yankedFiles *)

\* the elements of slice s, read from the backing arrays h
SliceElems(h, s) == IF s.len = 0 THEN <<>> ELSE SubSeq(h[s.arr], 1, s.len)

\* an array identifier not in use
FreshArray(h) == CHOOSE i \in 1..(Cardinality(DOMAIN h) + 1) : i \notin DOMAIN h

\* the capacity append grows a full slice to
GrownCap(cap) == IF cap = 0 THEN 1 ELSE 2 * cap

\* append(s, x): in place when the capacity allows, else into a new array
AppendSlice(h, s, x) ==
    IF s.len < s.cap
    THEN [slice |-> [s EXCEPT !.len = s.len + 1],
          arrays |-> [h EXCEPT ![s.arr][s.len + 1] = x]]
    ELSE LET a == FreshArray(h)
             c == GrownCap(s.cap)
             old == SliceElems(h, s)
         IN  [slice |-> [arr |-> a, len |-> s.len + 1, cap |-> c],
              arrays |-> [i \in DOMAIN h \cup {a} |->
                            IF i = a
                            THEN [j \in 1..c |-> IF j <= s.len THEN old[j]
                                                 ELSE IF j = s.len + 1 THEN x ELSE <<>>]
                            ELSE h[i]]]

\* s[:len(s)-1]: the last element is dropped, whatever i is
RemoveLast(h, s, i) ==
    [slice |-> [s EXCEPT !.len = s.len - 1], arrays |-> h]

\* append(s[:i], s[i+1:]...): the elements after index i move one place down
\* in the same array; the last place keeps its value
RemoveAt(h, s, i) ==
    [slice |-> [s EXCEPT !.len = s.len - 1],
     arrays |-> [h EXCEPT ![s.arr] =
                    [j \in 1..s.cap |-> IF j >= i + 1 /\ j < s.len THEN h[s.arr][j + 1] ELSE h[s.arr][j]]]]

\* index of the first element of s equal to key, -1 when there is none
YankedIndex(h, s, key) ==
    LET e == SliceElems(h, s) IN
    IF \E i \in 1..Len(e) : e[i] = key
    THEN (CHOOSE i \in 1..Len(e) : e[i] = key /\ \A j \in 1..(i - 1) : e[j] # key) - 1
    ELSE -1

-----------------------------------------------------------------------------
(* Commands: the closures Update returns.  Each holds what it captured of   *)
(* the Model when it was made.                                             *)

\* a listing of the root, wherever the browser is
loadObjectsOfRoot(mm) ==
    [type |-> "loadObjects", pc |-> "run", currentPath |-> <<>>]

loadObjects(mm) ==
    [type |-> "loadObjects", pc |-> "run", currentPath |-> mm.currentPath]

previewFileContent(mm, key) ==
    [type |-> "previewFileContent", pc |-> "run", key |-> key]

loadLocalFiles(mm, path) ==
    [type |-> "loadLocalFiles", pc |-> "run", path |-> path]

uploadFilePrompt(mm) == loadLocalFiles(mm, <<".">>)

uploadFile(mm, fullPath) ==
    [type |-> "uploadFile", pc |-> "run", fullPath |-> fullPath, currentPath |-> mm.currentPath]

deleteFile(mm, key) ==
    [type |-> "deleteFile", pc |-> "run", key |-> key]

downloadFile(mm, key) ==
    [type |-> "downloadFile", pc |-> "run", key |-> key]

renameFile(mm, oldKey, newFilename) ==
    [type |-> "renameFile", pc |-> "copy", oldKey |-> oldKey, newFilename |-> newFilename,
     objects |-> mm.objects, yankedFiles |-> mm.yankedFiles]

pasteFiles(mm) ==
    [type |-> "pasteFiles", pc |-> "loop", i |-> 0, currentPath |-> mm.currentPath,
     objects |-> mm.objects, yankedFiles |-> mm.yankedFiles,
     copiedFiles |-> <<>>, errors |-> <<>>,
     marked |-> SliceElems(arrays, mm.yankedFiles), sources |-> <<>>, failed |-> <<>>,
     copied |-> <<>>]

calculateDirStats(mm, dirKey) ==
    [type |-> "calculateDirStats", pc |-> "size", dirKey |-> dirKey,
     size |-> 0, lastModified |-> <<"N/A">>, sizeTimeout |-> FALSE, dateTimeout |-> FALSE,
     resolved |-> {}]

\* tea.Quit: the event loop ends
Quit == [type |-> "tea.Quit", pc |-> "done"]

-----------------------------------------------------------------------------
(* Update: what a handler returns *)

\* (m, cmd): the next Model and the commands to run, none when cmd is <<>>
Return(mm, cmd) == [m |-> mm, cmd |-> cmd, arrays |-> arrays, panic |-> FALSE]

\* the same, for a handler that wrote to the backing arrays
ReturnArrays(mm, cmd, h) == [m |-> mm, cmd |-> cmd, arrays |-> h, panic |-> FALSE]

\* the handler indexed a slice out of range: the program crashes
Panic(mm) == [m |-> mm, cmd |-> <<>>, arrays |-> arrays, panic |-> TRUE]

-----------------------------------------------------------------------------
(* Update: the result messages of the commands *)

\* statistics asked for every directory of the listing, cached or not
StatsCommandsAll(mm) ==
    LET dirs == SelectSeq(mm.objects, LAMBDA obj : obj.IsDir)
    IN  [i \in 1..Len(dirs) |-> calculateDirStats(mm, dirs[i].Key)]

\* the directories of the listing without cached statistics, in listing order
StatsCommands(mm) ==
    LET dirs == SelectSeq(mm.objects, LAMBDA obj : obj.IsDir /\ obj.Key \notin DOMAIN mm.dirStatsCache)
    IN  [i \in 1..Len(dirs) |-> calculateDirStats(mm, dirs[i].Key)]

OnObjectsLoaded(mm, msg) ==
    LET m1 == [mm EXCEPT !.loading = FALSE] IN
    IF ~msg.err.isNil
    THEN Return([m1 EXCEPT !.err = msg.err], <<>>)
    ELSE LET m2 == [m1 EXCEPT !.objects = msg.objects, !.cursor = 0,
                              !.scrollOffset = 0, !.err = NoError]
         IN  Return(m2, StatsCommands(m2))

OnPreviewLoaded(mm, msg) ==
    IF ~msg.err.isNil
    THEN Return([mm EXCEPT !.err = msg.err], <<>>)
    ELSE Return([mm EXCEPT !.previewContent = msg.content,
                           !.previewFileName = msg.file,
                           !.previewLines = Split(msg.content, "\n"),
                           !.previewScroll = 0,
                           !.viewMode = ViewPreview,
                           !.err = NoError], <<>>)

OnFileDownloaded(mm, msg) ==
    LET m1 == [mm EXCEPT !.loading = FALSE] IN
    IF ~msg.err.isNil
    THEN Return([m1 EXCEPT !.err = msg.err, !.statusMessage = <<>>], <<>>)
    ELSE Return([m1 EXCEPT !.err = NoError,
                           !.statusMessage = <<"Downloaded '">> \o msg.filename \o <<"' successfully">>],
                <<>>)

OnFileUploaded(mm, msg) ==
    LET m1 == [mm EXCEPT !.loading = FALSE] IN
    IF ~msg.err.isNil
    THEN Return([m1 EXCEPT !.err = msg.err, !.statusMessage = <<>>], <<>>)
    ELSE LET m2 == [m1 EXCEPT !.err = NoError,
                              !.statusMessage = <<"Uploaded '">> \o msg.filename \o <<"' successfully">>]
         IN  Return(m2, <<loadObjects(m2)>>)

OnLocalFilesLoaded(mm, msg) ==
    IF ~msg.err.isNil
    THEN Return([mm EXCEPT !.err = msg.err], <<>>)
    ELSE Return([mm EXCEPT !.localItems = msg.items,
                           !.localPath = msg.path,
                           !.cursor = 0,
                           !.viewMode = ViewUpload,
                           !.err = NoError], <<>>)

\* fileDeletedMsg handled without asking for the listing again
OnFileDeletedQuiet(mm, msg) ==
    LET m1 == [mm EXCEPT !.loading = FALSE] IN
    IF ~msg.err.isNil
    THEN Return([m1 EXCEPT !.err = msg.err, !.statusMessage = <<>>], <<>>)
    ELSE Return([m1 EXCEPT !.err = NoError,
                           !.statusMessage = <<"Deleted '">> \o msg.filename \o <<"' successfully">>],
                <<>>)

OnFileDeleted(mm, msg) ==
    LET m1 == [mm EXCEPT !.loading = FALSE] IN
    IF ~msg.err.isNil
    THEN Return([m1 EXCEPT !.err = msg.err, !.statusMessage = <<>>], <<>>)
    ELSE LET m2 == [m1 EXCEPT !.err = NoError,
                              !.statusMessage = <<"Deleted '">> \o msg.filename \o <<"' successfully">>]
         IN  Return(m2, <<loadObjects(m2)>>)

OnFileCopied(mm, msg) ==
    LET m1 == [mm EXCEPT !.loading = FALSE] IN
    IF ~msg.err.isNil
    THEN Return([m1 EXCEPT !.err = msg.err, !.statusMessage = <<>>], <<>>)
    ELSE LET text == IF ContainsTok(msg.sourceKey, " files")
                     THEN <<"Copied ">> \o msg.sourceKey \o <<" successfully">>
                     ELSE <<"Copied '">> \o Base(msg.sourceKey) \o <<"' to '">>
                              \o Base(msg.destKey) \o <<"' successfully">>
             m2 == [m1 EXCEPT !.err = NoError, !.statusMessage = text]
         IN  Return(m2, <<loadObjects(m2)>>)

OnFileRenamed(mm, msg) ==
    LET m1 == [mm EXCEPT !.loading = FALSE] IN
    IF ~msg.err.isNil
    THEN Return([m1 EXCEPT !.err = msg.err, !.statusMessage = <<>>], <<>>)
    ELSE LET m2 == [m1 EXCEPT !.err = NoError,
                              !.statusMessage = <<"Renamed '">> \o Base(msg.oldKey) \o <<"' to '">>
                                                    \o Base(msg.newKey) \o <<"' successfully">>]
         IN  Return(m2, <<loadObjects(m2)>>)

\* the cache with the record of one directory written
CacheWith(cache, dirKey, stats) ==
    [k \in DOMAIN cache \cup {dirKey} |-> IF k = dirKey THEN stats ELSE cache[k]]

\* a message of statistics that is dropped
OnDirStatsDropped(mm, msg) == Return(mm, <<>>)

OnDirStats(mm, msg) ==
    Return([mm EXCEPT !.dirStatsCache =
                CacheWith(mm.dirStatsCache, msg.dirKey,
                          DirStats(msg.size, msg.lastModified, msg.sizeTimeout, msg.dateTimeout))],
           <<>>)

-----------------------------------------------------------------------------
(* Update: key presses in the browser *)

\* lines of the window the list cannot use
Chrome == 8
\* rows the list is given at least
MinRows == 5
\* rows kept between the cursor and the edge of the window
Scrollback == 2

\* availableHeight
AvailableHeight(h) == IF h - Chrome < MinRows THEN MinRows ELSE h - Chrome

\* the offset after the scroll-down branch of updateScroll
ScrollDown(cursor, offset, ah) ==
    IF cursor >= offset + ah - Scrollback THEN cursor - ah + Scrollback + 1 ELSE offset

\* the offset after the scroll-up branch of updateScroll
ScrollUp(cursor, offset) ==
    IF cursor < offset + Scrollback THEN cursor - Scrollback ELSE offset

\* the offset kept within [0, n - ah]
ScrollClamp(offset, n, ah) ==
    LET lo == IF offset < 0 THEN 0 ELSE offset IN
    IF lo > n - ah THEN (IF n - ah < 0 THEN 0 ELSE n - ah) ELSE lo

updateScroll(mm) ==
    IF Len(mm.objects) = 0
    THEN [mm EXCEPT !.scrollOffset = 0]
    ELSE LET ah == AvailableHeight(mm.height) IN
         [mm EXCEPT !.scrollOffset =
             ScrollClamp(ScrollUp(mm.cursor, ScrollDown(mm.cursor, mm.scrollOffset, ah)),
                         Len(mm.objects), ah)]

\* the cursor one place up, and one place down in a list of n entries
CursorUp(cursor) == IF cursor > 0 THEN cursor - 1 ELSE cursor

\* a cursor that goes down without a look at the length of the list
CursorDownUnchecked(cursor, n) == cursor + 1

CursorDown(cursor, n) == IF cursor < n - 1 THEN cursor + 1 ELSE cursor

\* half a screen
PageSize(h) == IF AvailableHeight(h) \div 2 < 1 THEN 1 ELSE AvailableHeight(h) \div 2

\* the parent of a path: its last segment dropped
ParentPath(path) ==
    LET parts == Split(path, "/") IN
    IF Len(parts) > 1 THEN Join(SubSeq(parts, 1, Len(parts) - 1), <<"/">>) ELSE <<>>

\* the entry under the cursor; the caller has checked the cursor is in range
Selected(mm) == mm.objects[mm.cursor + 1]

CursorInObjects(mm) == mm.cursor >= 0 /\ mm.cursor < Len(mm.objects)

\* case "y": the key under the cursor joins or leaves yankedFiles
Yank(mm) ==
    LET key == Selected(mm).Key
        i == YankedIndex(arrays, mm.yankedFiles, key)
        r == IF i >= 0 THEN RemoveAt(arrays, mm.yankedFiles, i)
             ELSE AppendSlice(arrays, mm.yankedFiles, key)
        m1 == [mm EXCEPT !.yankedFiles = r.slice, !.err = NoError]
        m2 == IF m1.cursor < Len(m1.objects) - 1
              THEN updateScroll([m1 EXCEPT !.cursor = m1.cursor + 1])
              ELSE m1
    IN  ReturnArrays(m2, <<>>, r.arrays)

\* case "y" on the entry under the cursor: a directory is not marked
YankFile(mm) == IF ~Selected(mm).IsDir THEN Yank(mm) ELSE Return(mm, <<>>)

\* the dialog a key opens on the file under the cursor
OpenConfirm(mm, action) ==
    [mm EXCEPT !.confirmAction = action, !.confirmTarget = Selected(mm).Key,
               !.viewMode = ViewConfirm, !.err = NoError, !.statusMessage = <<>>]

\* a browser without the dialog: the command of the action is started at once
ExecuteAtOnce(mm, action) ==
    Return([mm EXCEPT !.loading = TRUE],
           <<IF action = <<"delete">> THEN deleteFile(mm, Selected(mm).Key)
             ELSE downloadFile(mm, Selected(mm).Key)>>)

\* cases "d" and "x" on a file: the dialog opens, nothing is started
ConfirmFirst(mm, action) == Return(OpenConfirm(mm, action), <<>>)

\* a dialog that opens with its cursor before the name
OpenRenameAtStart(mm) ==
    [mm EXCEPT !.renameOriginal = Selected(mm).Key,
               !.renameInput = Base(Selected(mm).Key),
               !.renameCursor = 0,
               !.viewMode = ViewRename, !.err = NoError, !.statusMessage = <<>>]

OpenRename(mm) ==
    [mm EXCEPT !.renameOriginal = Selected(mm).Key,
               !.renameInput = Base(Selected(mm).Key),
               !.renameCursor = Len(Base(Selected(mm).Key)),
               !.viewMode = ViewRename, !.err = NoError, !.statusMessage = <<>>]

updateBrowser(mm, key) ==
    LET n == Len(mm.objects) IN
    CASE key \in {"ctrl+c", "q"} -> Return(mm, <<Quit>>)
      [] key \in {"up", "k"} ->
            IF CursorUp(mm.cursor) # mm.cursor
            THEN Return(updateScroll([mm EXCEPT !.cursor = CursorUp(mm.cursor)]), <<>>)
            ELSE Return(mm, <<>>)
      [] key \in {"down", "j"} ->
            IF CursorDown(mm.cursor, n) # mm.cursor
            THEN Return(updateScroll([mm EXCEPT !.cursor = CursorDown(mm.cursor, n)]), <<>>)
            ELSE Return(mm, <<>>)
      [] key \in {"enter", "l", "o"} ->
            IF n > 0
            THEN IF ~CursorInObjects(mm) THEN Panic(mm)
                 ELSE IF Selected(mm).IsDir
                 THEN LET m1 == [mm EXCEPT !.currentPath = Selected(mm).Key, !.loading = TRUE,
                                           !.dirStatsCache = EmptyMap]
                      IN  Return(m1, <<loadObjects(m1)>>)
                 ELSE Return(mm, <<previewFileContent(mm, Selected(mm).Key)>>)
            ELSE Return(mm, <<>>)
      [] key \in {"backspace", "h"} ->
            IF mm.currentPath # <<>>
            THEN LET m1 == [mm EXCEPT !.currentPath = ParentPath(mm.currentPath), !.loading = TRUE,
                                      !.dirStatsCache = EmptyMap]
                 IN  Return(m1, <<loadObjects(m1)>>)
            ELSE Return(mm, <<>>)
      [] key = "r" ->
            IF n > 0
            THEN IF ~CursorInObjects(mm) THEN Panic(mm)
                 ELSE IF ~Selected(mm).IsDir THEN Return(OpenRename(mm), <<>>)
                 ELSE Return(mm, <<>>)
            ELSE Return(mm, <<>>)
      [] key = "d" ->
            IF n > 0
            THEN IF ~CursorInObjects(mm) THEN Panic(mm)
                 ELSE IF ~Selected(mm).IsDir THEN ConfirmFirst(mm, <<"download">>)
                 ELSE Return(mm, <<>>)
            ELSE Return(mm, <<>>)
      [] key = "u" -> Return(mm, <<uploadFilePrompt(mm)>>)
      [] key = "x" ->
            IF n > 0
            THEN IF ~CursorInObjects(mm) THEN Panic(mm)
                 ELSE IF ~Selected(mm).IsDir THEN ConfirmFirst(mm, <<"delete">>)
                 ELSE Return(mm, <<>>)
            ELSE Return(mm, <<>>)
      [] key = "y" ->
            IF n > 0
            THEN IF ~CursorInObjects(mm) THEN Panic(mm)
                 ELSE YankFile(mm)
            ELSE Return(mm, <<>>)
      [] key = "p" ->
            IF mm.yankedFiles.len > 0 THEN Return(mm, <<pasteFiles(mm)>>) ELSE Return(mm, <<>>)
      [] key = "c" ->
            IF mm.yankedFiles.len > 0
            THEN Return([mm EXCEPT !.yankedFiles = NilSlice,
                                   !.statusMessage = <<"Cleared ">> \o Itoa(mm.yankedFiles.len)
                                                        \o <<" yanked file(s)">>,
                                   !.err = NoError], <<>>)
            ELSE Return(mm, <<>>)
      [] key = "g" ->
            IF n > 0 THEN Return(updateScroll([mm EXCEPT !.cursor = 0]), <<>>) ELSE Return(mm, <<>>)
      [] key = "G" ->
            IF n > 0 THEN Return(updateScroll([mm EXCEPT !.cursor = n - 1]), <<>>) ELSE Return(mm, <<>>)
      [] key = "ctrl+d" ->
            IF n > 0
            THEN LET c == mm.cursor + PageSize(mm.height) IN
                 Return(updateScroll([mm EXCEPT !.cursor = IF c >= n THEN n - 1 ELSE c]), <<>>)
            ELSE Return(mm, <<>>)
      [] key = "ctrl+u" ->
            IF n > 0
            THEN LET c == mm.cursor - PageSize(mm.height) IN
                 Return(updateScroll([mm EXCEPT !.cursor = IF c < 0 THEN 0 ELSE c]), <<>>)
            ELSE Return(mm, <<>>)
      [] key = "?" -> Return([mm EXCEPT !.viewMode = ViewHelp], <<>>)
      [] OTHER -> Return(mm, <<>>)

-----------------------------------------------------------------------------
(* Update: key presses in the preview, the help and the upload picker *)

\* lines a page key scrolls the preview by
PreviewPage == 10

\* maxScroll of updatePreview
MaxScroll(mm) ==
    IF Len(mm.previewLines) - (mm.height - Chrome) < 0 THEN 0
    ELSE Len(mm.previewLines) - (mm.height - Chrome)

updatePreview(mm, key) ==
    CASE key \in {"ctrl+c", "q"} -> Return(mm, <<Quit>>)
      [] key \in {"esc", "backspace", "h", "left"} ->
            Return([mm EXCEPT !.viewMode = ViewBrowser, !.previewContent = <<>>,
                              !.previewFileName = <<>>, !.previewLines = <<>>,
                              !.previewScroll = 0], <<>>)
      [] key \in {"up", "k"} ->
            Return([mm EXCEPT !.previewScroll = IF @ > 0 THEN @ - 1 ELSE @], <<>>)
      [] key \in {"down", "j"} ->
            Return([mm EXCEPT !.previewScroll = IF @ < MaxScroll(mm) THEN @ + 1 ELSE @], <<>>)
      [] key \in {"pgup", "u"} ->
            Return([mm EXCEPT !.previewScroll = IF @ - PreviewPage < 0 THEN 0 ELSE @ - PreviewPage], <<>>)
      [] key \in {"pgdown", "d"} ->
            Return([mm EXCEPT !.previewScroll =
                        IF @ + PreviewPage > MaxScroll(mm) THEN MaxScroll(mm) ELSE @ + PreviewPage], <<>>)
      [] key \in {"home", "g"} -> Return([mm EXCEPT !.previewScroll = 0], <<>>)
      [] key \in {"end", "G"} -> Return([mm EXCEPT !.previewScroll = MaxScroll(mm)], <<>>)
      [] OTHER -> Return(mm, <<>>)

updateHelp(mm, key) ==
    CASE key \in {"ctrl+c", "q"} -> Return(mm, <<Quit>>)
      [] key \in {"esc", "?"} -> Return([mm EXCEPT !.viewMode = ViewBrowser], <<>>)
      [] OTHER -> Return(mm, <<>>)

\* the directory above localPath, as the picker names it
LocalParent(localPath) ==
    LET parent == Dir(localPath) IN
    IF parent = <<".">> /\ localPath = <<".">> THEN <<".", ".">>
    ELSE IF parent = <<>> \/ parent = <<"/">> THEN <<".">>
    ELSE parent

CursorInLocalItems(mm) == mm.cursor >= 0 /\ mm.cursor < Len(mm.localItems)

SelectedLocal(mm) == mm.localItems[mm.cursor + 1]

updateUpload(mm, key) ==
    CASE key \in {"ctrl+c", "q"} -> Return(mm, <<Quit>>)
      [] key = "esc" -> Return([mm EXCEPT !.viewMode = ViewBrowser], <<>>)
      [] key \in {"up", "k"} -> Return([mm EXCEPT !.cursor = CursorUp(mm.cursor)], <<>>)
      [] key \in {"down", "j"} ->
            Return([mm EXCEPT !.cursor = CursorDown(mm.cursor, Len(mm.localItems))], <<>>)
      [] key \in {"enter", "l", "o"} ->
            IF Len(mm.localItems) > 0
            THEN IF ~CursorInLocalItems(mm) THEN Panic(mm)
                 ELSE IF SelectedLocal(mm).IsDir
                 THEN LET newPath == IF SelectedLocal(mm).Name = <<".", ".">>
                                     THEN LocalParent(mm.localPath)
                                     ELSE JoinPath(mm.localPath, SelectedLocal(mm).Name)
                      IN  Return(mm, <<loadLocalFiles(mm, newPath)>>)
                 ELSE Return([mm EXCEPT !.confirmAction = <<"upload">>,
                                        !.confirmTarget = SelectedLocal(mm).Name,
                                        !.confirmData = StringData(JoinPath(mm.localPath, SelectedLocal(mm).Name)),
                                        !.viewMode = ViewConfirm,
                                        !.err = NoError,
                                        !.statusMessage = <<>>], <<>>)
            ELSE Return(mm, <<>>)
      [] key \in {"backspace", "h"} ->
            Return(mm, <<loadLocalFiles(mm, LocalParent(mm.localPath))>>)
      [] OTHER -> Return(mm, <<>>)

-----------------------------------------------------------------------------
(* Update: key presses in the confirmation dialog *)

\* an accept that deletes the target whatever was asked
ConfirmedDelete(mm) == <<deleteFile(mm, mm.confirmTarget)>>

\* the command the accepted action runs, none for an action that has none
ConfirmedCommand(mm) ==
    IF mm.confirmAction = <<"delete">> THEN <<deleteFile(mm, mm.confirmTarget)>>
    ELSE IF mm.confirmAction = <<"download">> THEN <<downloadFile(mm, mm.confirmTarget)>>
    ELSE IF mm.confirmAction = <<"upload">> /\ mm.confirmData.isString
         THEN <<uploadFile(mm, mm.confirmData.s)>>
    ELSE <<>>

ClearConfirm(mm) ==
    [mm EXCEPT !.confirmAction = <<>>, !.confirmTarget = <<>>, !.confirmData = NilData]

updateConfirm(mm, key) ==
    CASE key \in {"ctrl+c", "q"} -> Return(mm, <<Quit>>)
      [] key \in {"esc", "n", "N"} ->
            Return(ClearConfirm([mm EXCEPT !.viewMode = ViewBrowser]), <<>>)
      [] key \in {"y", "Y", "enter"} ->
            LET m1 == [mm EXCEPT !.viewMode = ViewBrowser, !.loading = TRUE]
            IN  Return(ClearConfirm(m1), ConfirmedCommand(m1))
      [] OTHER -> Return(mm, <<>>)

-----------------------------------------------------------------------------
(* Update: key presses in the rename dialog *)

\* the keys the dialog inserts: one printable ASCII character
Printable(key) == key \in Characters

\* s[:i] and s[i:] of a Go string
Before(str, i) == SubSeq(str, 1, i)

From(str, i) == SubSeq(str, i + 1, Len(str))

\* ctrl+w: the index the word left of the cursor starts at
RECURSIVE SkipSpaces(_, _)
SkipSpaces(str, start) ==
    IF start >= 0 /\ str[start + 1] = " " THEN SkipSpaces(str, start - 1) ELSE start

RECURSIVE SkipWord(_, _)
SkipWord(str, start) ==
    IF start >= 0 /\ str[start + 1] # " " THEN SkipWord(str, start - 1) ELSE start

WordStart(str, cursor) == SkipWord(str, SkipSpaces(str, cursor - 1)) + 1

\* the buffer and cursor after an editing key
EditRename(input, cursor, key) ==
    CASE key = "backspace" ->
            IF cursor > 0 /\ Len(input) > 0
            THEN [input |-> Before(input, cursor - 1) \o From(input, cursor), cursor |-> cursor - 1]
            ELSE [input |-> input, cursor |-> cursor]
      [] key = "delete" ->
            IF cursor < Len(input)
            THEN [input |-> Before(input, cursor) \o From(input, cursor + 1), cursor |-> cursor]
            ELSE [input |-> input, cursor |-> cursor]
      [] key = "left" -> [input |-> input, cursor |-> IF cursor > 0 THEN cursor - 1 ELSE cursor]
      [] key = "right" -> [input |-> input, cursor |-> IF cursor < Len(input) THEN cursor + 1 ELSE cursor]
      [] key \in {"home", "ctrl+a"} -> [input |-> input, cursor |-> 0]
      [] key \in {"end", "ctrl+e"} -> [input |-> input, cursor |-> Len(input)]
      [] key = "ctrl+u" -> [input |-> From(input, cursor), cursor |-> 0]
      [] key = "ctrl+w" ->
            IF cursor > 0
            THEN [input |-> Before(input, WordStart(input, cursor)) \o From(input, cursor),
                  cursor |-> WordStart(input, cursor)]
            ELSE [input |-> input, cursor |-> cursor]
      [] OTHER ->
            IF Printable(key)
            THEN [input |-> Before(input, cursor) \o <<key>> \o From(input, cursor), cursor |-> cursor + 1]
            ELSE [input |-> input, cursor |-> cursor]

\* the cursor kept within the buffer
ClampCursor(cursor, n) == IF cursor < 0 THEN 0 ELSE IF cursor > n THEN n ELSE cursor

ClearRename(mm) ==
    [mm EXCEPT !.renameInput = <<>>, !.renameOriginal = <<>>, !.renameCursor = 0]

\* an enter that renames to whatever the buffer holds
RenameNonEmpty(mm) == mm.renameInput # <<>>

\* whether enter in the dialog renames
RenameWanted(mm) == mm.renameInput # <<>> /\ mm.renameInput # Base(mm.renameOriginal)

\* a dialog that takes every key for a character of the name
updateRenameTyping(mm, key) == Return([mm EXCEPT !.renameInput = Append(mm.renameInput, key)], <<>>)

updateRename(mm, key) ==
    CASE key \in {"ctrl+c", "q"} -> Return(mm, <<Quit>>)
      [] key = "esc" -> Return(ClearRename([mm EXCEPT !.viewMode = ViewBrowser]), <<>>)
      [] key = "enter" ->
            IF RenameWanted(mm)
            THEN LET m1 == [mm EXCEPT !.viewMode = ViewBrowser, !.loading = TRUE]
                 IN  Return(ClearRename(m1), <<renameFile(m1, m1.renameOriginal, m1.renameInput)>>)
            ELSE Return(ClearRename([mm EXCEPT !.viewMode = ViewBrowser]), <<>>)
      [] OTHER ->
            LET e == EditRename(mm.renameInput, mm.renameCursor, key)
            IN  Return([mm EXCEPT !.renameInput = e.input,
                                  !.renameCursor = ClampCursor(e.cursor, Len(e.input))], <<>>)

-----------------------------------------------------------------------------
(* The commands at work.  A command with a single call to the store or the  *)
(* file system takes one step; its message then waits in cmds (pc "done")  *)
(* until the event loop receives it.                                       *)

\* the prefix a path is listed under
ListPrefix(path) ==
    IF path # <<>> /\ ~HasSuffix(path, <<"/">>) THEN path \o <<"/">> ELSE path

objectsLoadedMsg(objects, err) ==
    [type |-> "objectsLoadedMsg", pc |-> "done", objects |-> objects, err |-> err]

\* loadObjects: the sorted listing, or the error
LoadObjectsResult(c, st, ok) ==
    IF ok
    THEN objectsLoadedMsg(SortSlice(ObjectLess, ListObjects(st, ListPrefix(c.currentPath))), NoError)
    ELSE objectsLoadedMsg(<<>>, Errorf(<<"failed to list objects">>))

previewLoadedMsg(content, file, err) ==
    [type |-> "previewLoadedMsg", pc |-> "done", content |-> content, file |-> file, err |-> err]

\* utf8.Valid
Utf8Valid(data) == ~ContainsTok(data, "0xff")

BinaryPlaceholder == <<"[Binary file - cannot preview]">>

\* a preview that shows the bytes whatever they are
PreviewResultRaw(c, st, ok) ==
    IF ~ok THEN previewLoadedMsg(<<>>, <<>>, Errorf(<<"failed to get object">>))
    ELSE previewLoadedMsg(st[c.key].Data, c.key, NoError)

PreviewResult(c, st, ok) ==
    IF ~ok THEN previewLoadedMsg(<<>>, <<>>, Errorf(<<"failed to get object">>))
    ELSE IF ~Utf8Valid(st[c.key].Data) THEN previewLoadedMsg(BinaryPlaceholder, c.key, NoError)
    ELSE previewLoadedMsg(st[c.key].Data, c.key, NoError)

localFilesLoadedMsg(items, path, err) ==
    [type |-> "localFilesLoadedMsg", pc |-> "done", items |-> items, path |-> path, err |-> err]

\* the entries loadLocalFiles lists for what os.ReadDir returned
LocalListing(entries) ==
    SortSlice(LocalItemLess,
              <<LocalItem(<<".", ".">>, TRUE, 0)>>
                  \o SelectSeq(entries, LAMBDA e : ~HasPrefix(e.Name, <<".">>)))

LocalFilesResult(c) ==
    IF c.path \in DOMAIN LocalTree
    THEN localFilesLoadedMsg(LocalListing(LocalTree[c.path]), c.path, NoError)
    ELSE localFilesLoadedMsg(<<>>, <<>>, Errorf(<<"no such file or directory">>))

fileUploadedMsg(filename, err) ==
    [type |-> "fileUploadedMsg", pc |-> "done", filename |-> filename, err |-> err]

\* the key uploadFile writes a local file to
UploadDest(c) ==
    IF c.currentPath # <<>> THEN c.currentPath \o <<"/">> \o Base(c.fullPath) ELSE Base(c.fullPath)

fileDeletedMsg(filename, err) ==
    [type |-> "fileDeletedMsg", pc |-> "done", filename |-> filename, err |-> err]

fileDownloadedMsg(filename, err) ==
    [type |-> "fileDownloadedMsg", pc |-> "done", filename |-> filename, err |-> err]

fileRenamedMsg(oldKey, newKey, err) ==
    [type |-> "fileRenamedMsg", pc |-> "done", oldKey |-> oldKey, newKey |-> newKey, err |-> err]

\* the key renameFile moves oldKey to
RenamedKey(oldKey, newFilename) ==
    IF ContainsTok(oldKey, "/")
    THEN LET parts == Split(oldKey, "/") IN
         Join([i \in 1..Len(parts) |-> IF i = Len(parts) THEN newFilename ELSE parts[i]], <<"/">>)
    ELSE newFilename

KeyListed(objects, key) == \E i \in 1..Len(objects) : objects[i].Key = key

fileCopiedMsg(sourceKey, destKey, err) ==
    [type |-> "fileCopiedMsg", pc |-> "done", sourceKey |-> sourceKey, destKey |-> destKey, err |-> err]

\* "_copy_"
CopyMark == <<"_", "c", "o", "p", "y", "_">>

\* currentPath/filename
DestUnder(currentPath, filename) ==
    IF currentPath # <<>> THEN currentPath \o <<"/">> \o filename ELSE filename

\* name_copy_N.ext
CopyName(filename, counter) ==
    TrimSuffix(filename, Ext(filename)) \o CopyMark \o Itoa(counter) \o Ext(filename)

\* a counter that is taken as it comes, without a look at the listing
FirstCounter(currentPath, objects, filename, counter) == counter

\* the least counter from which on name_copy_N.ext is not a key of the listing
RECURSIVE FreeCounter(_, _, _, _)
FreeCounter(currentPath, objects, filename, counter) ==
    IF KeyListed(objects, DestUnder(currentPath, CopyName(filename, counter)))
    THEN FreeCounter(currentPath, objects, filename, counter + 1)
    ELSE counter

\* the destination key pasteFiles copies yankedFile to
PasteDest(currentPath, objects, yankedFile) ==
    LET filename == Base(yankedFile) IN
    IF KeyListed(objects, DestUnder(currentPath, filename))
    THEN DestUnder(currentPath, CopyName(filename, FreeCounter(currentPath, objects, filename, 1)))
    ELSE DestUnder(currentPath, filename)

\* the message pasteFiles returns after its loop
PasteSummary(c) ==
    IF Len(c.errors) > 0
    THEN fileCopiedMsg(<<>>, <<>>,
            Errorf(<<"Failed to copy ">> \o Itoa(Len(c.errors)) \o <<" file(s): ">>
                   \o Join(c.errors, <<", ">>)
                   \o (IF Len(c.copiedFiles) > 0
                       THEN <<". Successfully copied: ">> \o Join(c.copiedFiles, <<", ">>)
                       ELSE <<>>)))
    ELSE fileCopiedMsg(Itoa(c.yankedFiles.len) \o <<" files">>, Join(c.copiedFiles, <<", ">>), NoError)

\* the message, with the record of what the loop was given and what it did
PasteResult(c) ==
    PasteSummary(c) @@ [marked |-> c.marked, sources |-> c.sources, failed |-> c.failed,
                        copied |-> c.copied]

dirStatsMsg(c) ==
    [type |-> "dirStatsMsg", pc |-> "done", dirKey |-> c.dirKey, size |-> c.size,
     lastModified |-> c.lastModified, sizeTimeout |-> c.sizeTimeout, dateTimeout |-> c.dateTimeout,
     resolved |-> c.resolved]

RECURSIVE TotalSize(_)
TotalSize(objects) ==
    IF objects = <<>> THEN 0
    ELSE (IF Head(objects).IsDir THEN 0 ELSE Head(objects).Size) + TotalSize(Tail(objects))

RECURSIVE LatestFrom(_, _)
LatestFrom(objects, latestDate) ==
    IF objects = <<>> THEN latestDate
    ELSE LET obj == Head(objects) IN
         LatestFrom(Tail(objects),
                    IF ~obj.IsDir /\ (latestDate = <<>> \/ StrLess(latestDate, obj.LastModified))
                    THEN obj.LastModified ELSE latestDate)

LatestDate(objects) ==
    IF LatestFrom(objects, <<>>) = <<>> THEN <<"N/A">> ELSE LatestFrom(objects, <<>>)

-----------------------------------------------------------------------------
(* The event loop *)

\* the backing arrays some slice header still refers to
Referenced(mm, cs) ==
    {mm.yankedFiles.arr}
        \cup {cs[i].yankedFiles.arr : i \in {j \in 1..Len(cs) : cs[j].type \in {"pasteFiles", "renameFile"}}}

\* the headers that refer to array a
Headers(mm, cs, a) ==
    {s \in {mm.yankedFiles} \cup {cs[i].yankedFiles : i \in {j \in 1..Len(cs) : cs[j].type \in {"pasteFiles", "renameFile"}}} :
        s.arr = a}

\* the places of array a some header can read
Visible(mm, cs, a) == UNION {1..s.len : s \in Headers(mm, cs, a)}

\* the arrays still referred to; a place no header can read is not kept
Collect(h, mm, cs) ==
    [a \in DOMAIN h \cap Referenced(mm, cs) |->
        [j \in 1..Len(h[a]) |-> IF j \in Visible(mm, cs, a) THEN h[a][j] ELSE <<>>]]

RemoveCmd(cs, i) == SubSeq(cs, 1, i - 1) \o SubSeq(cs, i + 1, Len(cs))

ReplaceCmd(cs, i, c) == [cs EXCEPT ![i] = c]

\* a command the user's key press starts
IsUserCmd(r) == r.cmd # <<>> /\ r.cmd # <<Quit>>

\* Update has panicked, or has returned tea.Quit: the program ends
Ends(r) == r.panic \/ r.cmd = <<Quit>>

\* Update has returned r: the loop keeps the Model and starts the commands;
\* when the program ends, the commands still at work are never heard of
Updated(r, cs) ==
    LET started1 == IF Ends(r) THEN <<>> ELSE cs \o r.cmd IN
    /\ m' = r.m
    /\ cmds' = started1
    /\ arrays' = Collect(r.arrays, r.m, started1)
    /\ program' = IF r.panic THEN "panic" ELSE IF r.cmd = <<Quit>> THEN "quit" ELSE program
    /\ UNCHANGED store

\* Update has returned r to a key press
KeyHandled(r) ==
    /\ Updated(r, cmds)
    /\ started' = IF IsUserCmd(r) THEN started + 1 ELSE started

\* Update has returned r to the message of command i
MsgHandled(r, i) ==
    /\ Updated(r, RemoveCmd(cmds, i))
    /\ UNCHANGED started

\* the user has room for what a key press starts
MayDispatch(r) ==
    /\ (IsUserCmd(r) => started < MaxStarted)
    /\ r.m.yankedFiles.len <= MaxYank
    /\ Len(r.m.renameInput) <= MaxName

\* the program is constructed on the bucket st and Init's command is started
InitOn(st) ==
    /\ m = NewModel
    /\ arrays = [a \in {} |-> <<>>]
    /\ store = st
    /\ cmds = <<loadObjects(NewModel)>>
    /\ program = "starting"
    /\ started = 0

Init == InitOn(InitStore)

\* tea.WindowSizeMsg: the terminal reports its size when the program starts
WindowSize(h) ==
    /\ program = "starting"
    /\ m' = [m EXCEPT !.height = h]
    /\ program' = "running"
    /\ UNCHANGED <<arrays, store, cmds, started>>

\* tea.WindowSizeMsg: the terminal is resized
Resize(h) ==
    /\ program = "running"
    /\ m.height # h
    /\ m' = [m EXCEPT !.height = h]
    /\ UNCHANGED <<arrays, store, cmds, program, started>>

BrowserKey(key) ==
    /\ program = "running" /\ m.viewMode = ViewBrowser
    /\ MayDispatch(updateBrowser(m, key))
    /\ KeyHandled(updateBrowser(m, key))

PreviewKey(key) ==
    /\ program = "running" /\ m.viewMode = ViewPreview
    /\ MayDispatch(updatePreview(m, key))
    /\ KeyHandled(updatePreview(m, key))

HelpKey(key) ==
    /\ program = "running" /\ m.viewMode = ViewHelp
    /\ MayDispatch(updateHelp(m, key))
    /\ KeyHandled(updateHelp(m, key))

UploadKey(key) ==
    /\ program = "running" /\ m.viewMode = ViewUpload
    /\ MayDispatch(updateUpload(m, key))
    /\ KeyHandled(updateUpload(m, key))

RenameKey(key) ==
    /\ program = "running" /\ m.viewMode = ViewRename
    /\ MayDispatch(updateRename(m, key))
    /\ KeyHandled(updateRename(m, key))

ConfirmKey(key) ==
    /\ program = "running" /\ m.viewMode = ViewConfirm
    /\ MayDispatch(updateConfirm(m, key))
    /\ KeyHandled(updateConfirm(m, key))

\* Update on the message of a finished command
UpdateMsg(mm, msg) ==
    CASE msg.type = "objectsLoadedMsg" -> OnObjectsLoaded(mm, msg)
      [] msg.type = "previewLoadedMsg" -> OnPreviewLoaded(mm, msg)
      [] msg.type = "fileDownloadedMsg" -> OnFileDownloaded(mm, msg)
      [] msg.type = "fileUploadedMsg" -> OnFileUploaded(mm, msg)
      [] msg.type = "localFilesLoadedMsg" -> OnLocalFilesLoaded(mm, msg)
      [] msg.type = "fileDeletedMsg" -> OnFileDeleted(mm, msg)
      [] msg.type = "fileCopiedMsg" -> OnFileCopied(mm, msg)
      [] msg.type = "fileRenamedMsg" -> OnFileRenamed(mm, msg)
      [] msg.type = "dirStatsMsg" -> OnDirStats(mm, msg)

\* the event loop receives the message of command i
Receive(i) ==
    /\ program = "running"
    /\ i \in 1..Len(cmds) /\ cmds[i].pc = "done"
    /\ MsgHandled(UpdateMsg(m, cmds[i]), i)

-----------------------------------------------------------------------------
(* The steps of the commands *)

\* a worker's step: command i becomes c, the store becomes st
Worked(i, c, st) ==
    /\ cmds' = ReplaceCmd(cmds, i, c)
    /\ store' = st
    /\ UNCHANGED <<m, arrays, program, started>>

Working(i, type, pc) ==
    /\ program = "running"
    /\ i \in 1..Len(cmds) /\ cmds[i].type = type /\ cmds[i].pc = pc

RunLoadObjects(i) ==
    /\ Working(i, "loadObjects", "run")
    /\ \E ok \in BOOLEAN : Worked(i, LoadObjectsResult(cmds[i], store, ok), store)

RunPreviewFileContent(i) ==
    /\ Working(i, "previewFileContent", "run")
    /\ \E ok \in BOOLEAN :
        /\ ok => cmds[i].key \in DOMAIN store
        /\ Worked(i, PreviewResult(cmds[i], store, ok), store)

RunLoadLocalFiles(i) ==
    /\ Working(i, "loadLocalFiles", "run")
    /\ Worked(i, LocalFilesResult(cmds[i]), store)

RunUploadFile(i) ==
    /\ Working(i, "uploadFile", "run")
    /\ LET c == cmds[i] IN
       IF c.fullPath \notin DOMAIN LocalFiles
       THEN Worked(i, fileUploadedMsg(<<>>, Errorf(<<"failed to read file '">> \o c.fullPath \o <<"'">>)), store)
       ELSE \/ /\ CanPut(store, UploadDest(c))
               /\ Worked(i, fileUploadedMsg(Base(c.fullPath), NoError),
                         PutObject(store, UploadDest(c), LocalFiles[c.fullPath]))
            \/ Worked(i, fileUploadedMsg(<<>>, Errorf(<<"failed to put object">>)), store)

RunDeleteFile(i) ==
    /\ Working(i, "deleteFile", "run")
    /\ \/ Worked(i, fileDeletedMsg(Base(cmds[i].key), NoError), DeleteObject(store, cmds[i].key))
       \/ Worked(i, fileDeletedMsg(<<>>, Errorf(<<"failed to delete object">>)), store)

RunDownloadFile(i) ==
    /\ Working(i, "downloadFile", "run")
    /\ \/ /\ cmds[i].key \in DOMAIN store
          /\ Worked(i, fileDownloadedMsg(Base(cmds[i].key), NoError), store)
       \/ Worked(i, fileDownloadedMsg(<<>>, Errorf(<<"failed to get object">>)), store)
       \/ /\ cmds[i].key \in DOMAIN store
          /\ Worked(i, fileDownloadedMsg(<<>>, Errorf(<<"failed to write file '">> \o Base(cmds[i].key) \o <<"'">>)),
                    store)

\* a RenameObject that goes on to its delete whatever became of the copy
RenameCopyAnyway(i) ==
    /\ Working(i, "renameFile", "copy")
    /\ Worked(i, [cmds[i] EXCEPT !.pc = "delete"], store)

\* renameFile up to the copy of RenameObject
RenameCopy(i) ==
    /\ Working(i, "renameFile", "copy")
    /\ LET c == cmds[i]
           newKey == RenamedKey(c.oldKey, c.newFilename)
       IN  IF KeyListed(c.objects, newKey)
           THEN Worked(i, fileRenamedMsg(<<>>, <<>>,
                            Errorf(<<"file '">> \o c.newFilename \o <<"' already exists">>)), store)
           ELSE \/ /\ CanCopy(store, c.oldKey, newKey)
                   /\ Worked(i, [c EXCEPT !.pc = "delete"], CopyObject(store, c.oldKey, newKey))
                \/ Worked(i, fileRenamedMsg(<<>>, <<>>,
                                Errorf(<<"failed to copy object during rename">>)), store)

\* the delete of RenameObject
RenameDelete(i) ==
    /\ Working(i, "renameFile", "delete")
    /\ \/ Worked(i, [cmds[i] EXCEPT !.pc = "yanked"], DeleteObject(store, cmds[i].oldKey))
       \/ Worked(i, fileRenamedMsg(<<>>, <<>>,
                        Errorf(<<"failed to delete original object during rename">>)), store)

\* renameFile after RenameObject: the yanked key follows the rename, in the
\* backing array the command captured
RenameYanked(i) ==
    /\ Working(i, "renameFile", "yanked")
    /\ LET c == cmds[i]
           newKey == RenamedKey(c.oldKey, c.newFilename)
           j == YankedIndex(arrays, c.yankedFiles, c.oldKey)
       IN  /\ arrays' = IF j >= 0 THEN [arrays EXCEPT ![c.yankedFiles.arr][j + 1] = newKey] ELSE arrays
           /\ cmds' = ReplaceCmd(cmds, i, fileRenamedMsg(c.oldKey, newKey, NoError))
    /\ UNCHANGED <<m, store, program, started>>

\* one round of the loop of pasteFiles: the key is read from the backing
\* array now, and copied; after the last round the message is ready
PasteStep(i) ==
    /\ Working(i, "pasteFiles", "loop")
    /\ LET c == cmds[i]
           yankedFile == arrays[c.yankedFiles.arr][c.i + 1]
           destKey == PasteDest(c.currentPath, c.objects, yankedFile)
           next(c1) == IF c1.i = c1.yankedFiles.len THEN PasteResult(c1) ELSE c1
       IN  \/ /\ CanCopy(store, yankedFile, destKey)
              /\ Worked(i, next([c EXCEPT !.i = c.i + 1,
                                          !.copiedFiles = Append(c.copiedFiles, Base(destKey)),
                                          !.sources = Append(c.sources, yankedFile),
                                          !.copied = Append(c.copied, destKey)]),
                        CopyObject(store, yankedFile, destKey))
           \/ Worked(i, next([c EXCEPT !.i = c.i + 1,
                                       !.errors = Append(c.errors, Base(yankedFile) \o <<": failed to copy object">>),
                                       !.sources = Append(c.sources, yankedFile),
                                       !.failed = Append(c.failed, yankedFile)]),
                     store)

\* a calculateDirStats that returns its message once the size has resolved
StatsSizeOnly(i) ==
    /\ Working(i, "calculateDirStats", "size")
    /\ LET c1 == [cmds[i] EXCEPT !.resolved = {"size"}] IN
       Worked(i, dirStatsMsg([c1 EXCEPT !.size = TotalSize(ListObjects(store, ListPrefix(c1.dirKey)))]),
              store)

\* calculateDirStats: the first select, on the size
StatsSize(i) ==
    /\ Working(i, "calculateDirStats", "size")
    /\ LET c == cmds[i] IN
       LET c1 == [c EXCEPT !.pc = "date", !.resolved = c.resolved \cup {"size"}] IN
       \/ Worked(i, [c1 EXCEPT !.sizeTimeout = TRUE], store)
       \/ Worked(i, [c1 EXCEPT !.size = TotalSize(ListObjects(store, ListPrefix(c.dirKey)))], store)

\* calculateDirStats: the second select, on the date, and the message
StatsDate(i) ==
    /\ Working(i, "calculateDirStats", "date")
    /\ LET c == cmds[i] IN
       LET c1 == [c EXCEPT !.resolved = c.resolved \cup {"date"}] IN
       \/ Worked(i, dirStatsMsg([c1 EXCEPT !.dateTimeout = TRUE]), store)
       \/ Worked(i, dirStatsMsg([c1 EXCEPT !.lastModified =
                                    LatestDate(ListObjects(store, ListPrefix(c.dirKey)))]), store)

-----------------------------------------------------------------------------
(* The browser at work on files: listing and walking the bucket, preview,  *)
(* delete, download and upload                                              *)

Heights == {10}

FileKeys == {"q", "up", "down", "enter", "backspace", "d", "x", "u"}

PreviewKeys == {"q", "esc"}

UploadKeys == {"q", "esc", "up", "down", "enter", "backspace"}

ConfirmKeys == {"q", "esc", "y"}

Next ==
    \/ \E h \in Heights : WindowSize(h)
    \/ \E key \in FileKeys : BrowserKey(key)
    \/ \E key \in PreviewKeys : PreviewKey(key)
    \/ \E key \in UploadKeys : UploadKey(key)
    \/ \E key \in ConfirmKeys : ConfirmKey(key)
    \/ \E i \in 1..Len(cmds) : Receive(i)
    \/ \E i \in 1..Len(cmds) : RunLoadObjects(i)
    \/ \E i \in 1..Len(cmds) : StatsSize(i)
    \/ \E i \in 1..Len(cmds) : StatsDate(i)
    \/ \E i \in 1..Len(cmds) : RunPreviewFileContent(i)
    \/ \E i \in 1..Len(cmds) : RunLoadLocalFiles(i)
    \/ \E i \in 1..Len(cmds) : RunUploadFile(i)
    \/ \E i \in 1..Len(cmds) : RunDeleteFile(i)
    \/ \E i \in 1..Len(cmds) : RunDownloadFile(i)

Spec == Init /\ [][Next]_vars

-----------------------------------------------------------------------------
(* Properties of the browser at work on files *)

\* C1: in every state the cursor is within the active list, when that list
\* is not empty: the objects in the browser, the local items in the
\* upload picker
CursorWithinActiveList ==
    /\ (m.viewMode = ViewBrowser /\ m.objects # <<>>) => m.cursor \in 0..(Len(m.objects) - 1)
    /\ (m.viewMode = ViewUpload /\ m.localItems # <<>>) => m.cursor \in 0..(Len(m.localItems) - 1)

\* what one press of up or down makes of a cursor c in a list of n entries
KeptInList(key, c, c1, n) ==
    /\ (n = 0 /\ c = 0) => c1 = 0
    /\ (n > 0 /\ c \in 0..(n - 1)) => c1 \in 0..(n - 1)
    /\ (key = "up" /\ c = 0) => c1 = 0
    /\ (key = "down" /\ c = n - 1) => c1 = c

\* C2: a press of up or down, in the browser and in the upload picker, keeps
\* a cursor that is within the list of n entries within it, keeps it 0 when
\* n = 0, and leaves it unchanged by up at 0 and by down at n - 1
CursorStaysInList ==
    [][\A key \in {"up", "down"} :
          /\ BrowserKey(key) => KeptInList(key, m.cursor, m'.cursor, Len(m.objects))
          /\ UploadKey(key) => KeptInList(key, m.cursor, m'.cursor, Len(m.localItems))]_vars

\* C2: the cursor has come down to the last of several objects, by presses of
\* down alone
CursorAtLastObject ==
    /\ program = "running" /\ m.viewMode = ViewBrowser /\ started = 0
    /\ Len(m.objects) >= 2 /\ m.cursor = Len(m.objects) - 1

\* the message of command i is the whole outcome of calculateDirStats
WholeStats(cs, i, dirKey, stats) ==
    /\ cs[i].type = "dirStatsMsg" /\ cs[i].dirKey = dirKey
    /\ cs[i].resolved = {"size", "date"}
    /\ stats = DirStats(cs[i].size, cs[i].lastModified, cs[i].sizeTimeout, cs[i].dateTimeout)

\* C5: a record of dirStatsCache is written only in the step that receives
\* the message of calculateDirStats for that directory, with its four fields
\* together, and that message is made only after both the size and the date
\* have resolved
StatsWrittenWhole ==
    [][\A dirKey \in DOMAIN m'.dirStatsCache :
          (dirKey \notin DOMAIN m.dirStatsCache \/ m'.dirStatsCache[dirKey] # m.dirStatsCache[dirKey])
              => \E i \in 1..Len(cmds) :
                    /\ WholeStats(cmds, i, dirKey, m'.dirStatsCache[dirKey])
                    /\ cmds' = RemoveCmd(cmds, i)]_vars

\* C5: the size has resolved in time and the date has not, and the record is
\* in the cache
StatsHalfTimedOut ==
    \E dirKey \in DOMAIN m.dirStatsCache :
        /\ ~m.dirStatsCache[dirKey].SizeTimeout /\ m.dirStatsCache[dirKey].Size > 0
        /\ m.dirStatsCache[dirKey].DateTimeout

\* C9: in every state at most one of the error and the status message is set
ErrorOrStatus == m.err.isNil \/ m.statusMessage = <<>>

Operations == {"deleteFile", "downloadFile", "uploadFile"}

\* the commands of type t among cs
Count(cs, t) == Cardinality({i \in 1..Len(cs) : cs[i].type = t})

\* the dialog asks about action on target
Asks(mm, action, target) ==
    /\ mm.viewMode = ViewConfirm
    /\ mm.confirmAction = action /\ mm.confirmTarget = target

\* the step starts command c, and it is an accept in the dialog that asked for it
Accepted(c) ==
    /\ \E key \in {"y", "Y", "enter"} : ConfirmKey(key)
    /\ cmds' = Append(cmds, c)
    /\ \/ c.type = "deleteFile" /\ Asks(m, <<"delete">>, c.key)
       \/ c.type = "downloadFile" /\ Asks(m, <<"download">>, c.key)
       \/ /\ c.type = "uploadFile" /\ Asks(m, <<"upload">>, m.confirmTarget)
          /\ m.confirmData = StringData(c.fullPath)

-----------------------------------------------------------------------------
(* The browser scrolling a long listing in a window that is resized *)

ScrollHeights == {13, 14}

ScrollKeys == {"up", "down", "g", "G", "ctrl+d", "ctrl+u", "y", "u"}

ScrollUploadKeys == {"down", "enter", "esc"}

InitScroll == InitOn(WideStore)

NextScroll ==
    \/ \E h \in ScrollHeights : WindowSize(h)
    \/ \E h \in ScrollHeights : Resize(h)
    \/ \E key \in ScrollKeys : BrowserKey(key)
    \/ \E key \in ScrollUploadKeys : UploadKey(key)
    \/ \E key \in {"esc"} : ConfirmKey(key)
    \/ \E i \in 1..Len(cmds) : Receive(i)
    \/ \E i \in 1..Len(cmds) : RunLoadObjects(i)
    \/ \E i \in 1..Len(cmds) : RunLoadLocalFiles(i)

SpecScroll == InitScroll /\ [][NextScroll]_vars

\* the rows of the listing a window of height h shows
VisibleHeight(h) == IF h - 8 > 5 THEN h - 8 ELSE 5

\* the window [scrollOffset, scrollOffset + visibleHeight) is within the
\* listing and, when the listing fills it, holds the cursor
ScrollInvariant(mm) ==
    LET n == Len(mm.objects)
        visibleHeight == VisibleHeight(mm.height)
    IN  /\ mm.scrollOffset >= 0
        /\ mm.scrollOffset <= (IF n - visibleHeight > 0 THEN n - visibleHeight ELSE 0)
        /\ n >= visibleHeight
            => mm.scrollOffset <= mm.cursor /\ mm.cursor < mm.scrollOffset + visibleHeight

\* C3: after every move of the cursor in the browser (up, down, g, G, half a
\* page up or down, the advance after a mark) the scroll offset is at least
\* 0, at most max(0, n - visibleHeight), and the cursor is within the window
\* when n >= visibleHeight
ScrollFollowsCursor ==
    [][\A key \in {"up", "down", "g", "G", "ctrl+d", "ctrl+u", "y"} :
          (BrowserKey(key) /\ m'.cursor # m.cursor /\ program' = "running") => ScrollInvariant(m')]_vars

\* the same of the moves that start with the cursor on an entry of the listing
ScrollFollowsCursorInList ==
    [][\A key \in {"up", "down", "g", "G", "ctrl+d", "ctrl+u", "y"} :
          (BrowserKey(key) /\ m'.cursor # m.cursor /\ CursorInObjects(m)) => ScrollInvariant(m')]_vars

-----------------------------------------------------------------------------
(* The browser copying files: marking, clearing and pasting *)

PasteKeys == {"up", "down", "y", "c", "p"}

\* the pastes the user starts
MaxPastes == 1

InitPaste == InitOn(PasteStore)

NextPaste ==
    \/ \E h \in Heights : WindowSize(h)
    \/ \E key \in PasteKeys : (key = "p" => started < MaxPastes) /\ BrowserKey(key)
    \/ \E i \in 1..Len(cmds) : Receive(i)
    \/ \E i \in 1..Len(cmds) : RunLoadObjects(i)
    \/ \E i \in 1..Len(cmds) : PasteStep(i)

SpecPaste == InitPaste /\ [][NextPaste]_vars

\* the elements of a sequence
Range(seq) == {seq[i] : i \in 1..Len(seq)}

\* how often x is in seq
Times(seq, x) == Cardinality({i \in 1..Len(seq) : seq[i] = x})

\* part is a piece of text
Within(text, part) ==
    \E i \in 0..(Len(text) - Len(part)) : SubSeq(text, i + 1, i + Len(part)) = part

\* the message of a paste accounts for the keys marked at the key press:
\* each of them was copied or has failed, a success reports their number,
\* an error names every failed key with its reason and every copy made
Accounts(msg) ==
    LET k == Len(msg.marked) IN
    /\ k >= 1
    /\ Len(msg.sources) = k /\ Range(msg.sources) = Range(msg.marked)
    /\ IF msg.failed = <<>>
       THEN msg.err.isNil /\ msg.sourceKey = Itoa(k) \o <<" files">>
       ELSE /\ ~msg.err.isNil
            /\ \A key \in Range(msg.failed) :
                  Within(msg.err.text, Base(key) \o <<": failed to copy object">>)
            /\ \A dest \in Range(msg.copied) : Within(msg.err.text, Base(dest))

\* the commands and messages of pastes among cs
Pastes(cs) == Count(cs, "pasteFiles") + Count(cs, "fileCopiedMsg")

\* C7: a press of "p" with k >= 1 marked keys starts one command, which ends
\* in one message that accounts for all k keys: a success that reports k
\* files when every copy succeeded, else an error that names each failed key
\* and lists the copies made; a press with no marked key starts nothing
PasteAccountsForAll ==
    [][/\ BrowserKey("p") =>
            IF m.yankedFiles.len = 0 THEN cmds' = cmds
            ELSE Pastes(cmds') = Pastes(cmds) + 1 /\ program' = "running"
       /\ (~BrowserKey("p") /\ program' = "running") => Pastes(cmds') <= Pastes(cmds)
       /\ \A i \in 1..Len(cmds') : cmds'[i].type = "fileCopiedMsg" => Accounts(cmds'[i])]_vars

\* C8: when a paste has ended, the copy of each key marked at the key press
\* has been attempted exactly once, whatever became of the others
EachMarkedKeyCopiedOnce ==
    \A i \in 1..Len(cmds) :
        cmds[i].type = "fileCopiedMsg"
            => \A key \in Range(cmds[i].marked) : Times(cmds[i].sources, key) = 1

-----------------------------------------------------------------------------
(* The browser renaming files, marked ones among them.  The statistics of   *)
(* the directories take no part in it: their commands are started and have  *)
(* not yet run.                                                             *)

RenameBrowserKeys == {"up", "down", "y", "r"}

RenameKeys == {"esc", "enter", "backspace", "/", "d"}

\* the renames the user starts
MaxRenames == 1

InitRename == InitOn(InitStore)

NextRename ==
    \/ \E h \in Heights : WindowSize(h)
    \/ \E key \in RenameBrowserKeys : BrowserKey(key)
    \/ \E key \in RenameKeys :
          ((key = "enter" /\ RenameWanted(m)) => started < MaxRenames) /\ RenameKey(key)
    \/ \E i \in 1..Len(cmds) : Receive(i)
    \/ \E i \in 1..Len(cmds) : RunLoadObjects(i)
    \/ \E i \in 1..Len(cmds) : RenameCopy(i)
    \/ \E i \in 1..Len(cmds) : RenameDelete(i)
    \/ \E i \in 1..Len(cmds) : RenameYanked(i)

SpecRename == InitRename /\ [][NextRename]_vars

\* the keys of the directory entries of a listing; in the bucket a key
\* that ends in "/" stands for a directory
DirectoryKeys(objects) == {objects[i].Key : i \in {j \in 1..Len(objects) : objects[j].IsDir}}

\* C4: in every state the marked keys are keys of files: none of them is the
\* key of a directory entry, neither by the mark key nor by any other step
YankedAreFiles ==
    \A key \in Range(SliceElems(arrays, m.yankedFiles)) :
        ~HasSuffix(key, <<"/">>) /\ key \notin DirectoryKeys(m.objects)

-----------------------------------------------------------------------------
(* The destination of a paste.  The browser has walked to a prefix, holds   *)
(* the listing of it and one marked key; the names the copy could take are  *)
(* taken or free in the bucket.                                             *)

\* the prefixes pasted into: the root and the directory d
DestPaths == {<<>>, <<"d">>}

\* the marked keys: with and without extension, from the root and from d
DestSources == {<<"a", ".", "b">>, <<"c">>, <<"d", "/", "a", ".", "b">>}

\* the copies of one name that are looked at
MaxCopies == 3

\* the object that makes d a directory of the bucket, empty or not
DirMarker == <<"d", "/">>

\* the names a copy of filename could be given under path
DestNames(path, filename) ==
    {DestUnder(path, filename)} \cup {DestUnder(path, CopyName(filename, N)) : N \in 1..(MaxCopies - 1)}

\* the browser at path with its listing loaded and key marked
InitAt(st, path, key) ==
    LET m0 == [NewModel EXCEPT !.currentPath = path, !.height = 10,
                               !.yankedFiles = [arr |-> 1, len |-> 1, cap |-> 1]]
        r == OnObjectsLoaded(m0, LoadObjectsResult(loadObjects(m0), st, TRUE))
    IN  /\ arrays = << <<key>> >>
        /\ m = r.m
        /\ store = st
        /\ cmds = r.cmd
        /\ program = "running"
        /\ started = 0

InitDest ==
    \E path \in DestPaths, key \in DestSources :
        \E taken \in SUBSET DestNames(path, Base(key)) :
            InitAt([k \in {DirMarker, key} \cup taken |-> StoreObject(1, <<"1">>, <<"a">>)], path, key)

NextDest ==
    \/ (started < MaxPastes /\ BrowserKey("p"))
    \/ \E i \in 1..Len(cmds) : PasteStep(i)
    \/ \E i \in 1..Len(cmds) : Receive(i)
    \/ \E i \in 1..Len(cmds) : RunLoadObjects(i)

SpecDest == InitDest /\ [][NextDest]_vars

\* the destination as it is specified: path/base(key) when the listing has
\* no such key, else path/<name>_copy_N<ext> for the smallest N >= 1 whose
\* key the listing has not
SpecifiedDest(path, objects, key) ==
    LET base == Base(key)
        ext == Ext(base)
        name == SubSeq(base, 1, Len(base) - Len(ext))
        under(filename) == IF path = <<>> THEN filename ELSE path \o <<"/">> \o filename
        numbered(N) == under(name \o <<"_", "c", "o", "p", "y", "_">> \o Itoa(N) \o ext)
        free(N) == ~KeyListed(objects, numbered(N))
    IN  IF ~KeyListed(objects, under(base)) THEN under(base)
        ELSE numbered(CHOOSE N \in 1..(Len(objects) + 1) : free(N) /\ \A j \in 1..(N - 1) : ~free(j))

\* C6: a marked key pasted into the prefix P with the listing L is copied to
\* P/base(key) when L has no such key, and else to P/<name>_copy_N<ext> with
\* the smallest N >= 1 whose key is not in L
PasteGoesToSpecifiedDest ==
    [][\A i \in 1..Len(cmds) :
          (PasteStep(i) /\ Len(cmds'[i].copied) > Len(cmds[i].copied)) =>
              LET c == cmds[i]
                  key == arrays[c.yankedFiles.arr][c.i + 1]
                  dest == SpecifiedDest(c.currentPath, c.objects, key)
              IN  /\ cmds'[i].copied = Append(c.copied, dest)
                  /\ store' = CopyObject(store, key, dest)]_vars

\* a paste into d, where a.b and a_copy_1.b are listed, has made a_copy_2.b
PastedAsSecondCopy ==
    \E i \in 1..Len(cmds) :
        /\ cmds[i].type = "fileCopiedMsg"
        /\ cmds[i].copied = << <<"d", "/", "a", "_", "c", "o", "p", "y", "_", "2", ".", "b">> >>
        /\ m.currentPath = <<"d">>

-----------------------------------------------------------------------------
(* Properties of the dialogs *)

\* what the dialog holds: the action, its target and, for an upload, the path
Stored(mm) ==
    <<mm.confirmAction, mm.confirmTarget,
      IF mm.confirmAction = <<"upload">> THEN mm.confirmData ELSE NilData>>

\* c is the command of the action the dialog of mm holds
StoredCommand(mm, c) ==
    \/ mm.confirmAction = <<"delete">> /\ c.type = "deleteFile" /\ c.key = mm.confirmTarget
    \/ mm.confirmAction = <<"download">> /\ c.type = "downloadFile" /\ c.key = mm.confirmTarget
    \/ mm.confirmAction = <<"upload">> /\ c.type = "uploadFile"
                                       /\ mm.confirmData = StringData(c.fullPath)

\* the dialog is closed and holds nothing
DialogCleared(mm) ==
    /\ mm.viewMode = ViewBrowser
    /\ mm.confirmAction = <<>> /\ mm.confirmTarget = <<>> /\ mm.confirmData = NilData

\* C11: the dialog is opened by the keys that ask, and while it is open no
\* step changes what it holds; an accept starts exactly one command, of the
\* stored action on the stored target or path, clears the action, target and
\* payload and returns to Browser; a decline does the same and starts nothing
ConfirmDialogDecides ==
    [][/\ (m.viewMode # ViewConfirm /\ m'.viewMode = ViewConfirm)
            => BrowserKey("d") \/ BrowserKey("x") \/ UploadKey("enter")
       /\ (m.viewMode = ViewConfirm /\ m'.viewMode = ViewConfirm) => Stored(m') = Stored(m)
       /\ \A key \in {"y", "Y", "enter"} :
            ConfirmKey(key) =>
                /\ \E c \in Range(cmds') : cmds' = Append(cmds, c) /\ StoredCommand(m, c)
                /\ DialogCleared(m')
       /\ \A key \in {"esc", "n", "N"} :
            ConfirmKey(key) => cmds' = cmds /\ DialogCleared(m')]_vars

\* a download asked for in the dialog has been accepted and is at work
DownloadAccepted ==
    /\ program = "running" /\ DialogCleared(m) /\ m.loading
    /\ \E i \in 1..Len(cmds) : cmds[i].type = "downloadFile" /\ cmds[i].pc = "run"


\* the rename dialog is closed and holds nothing
RenameCleared(mm) ==
    /\ mm.viewMode = ViewBrowser
    /\ mm.renameInput = <<>> /\ mm.renameOriginal = <<>> /\ mm.renameCursor = 0

\* C12: in the rename dialog confirm starts a rename command if and only if
\* the buffer is not empty and differs from the base name of the file; confirm
\* and cancel both return to Browser with the buffer, the original key and
\* the dialog cursor cleared, and cancel starts nothing
RenameDialogDecides ==
    [][/\ RenameKey("enter") =>
            /\ RenameCleared(m')
            /\ IF m.renameInput # <<>> /\ m.renameInput # Base(m.renameOriginal)
               THEN \E c \in Range(cmds') :
                        /\ cmds' = Append(cmds, c) /\ c.type = "renameFile"
                        /\ c.oldKey = m.renameOriginal /\ c.newFilename = m.renameInput
               ELSE cmds' = cmds
       /\ RenameKey("esc") => cmds' = cmds /\ RenameCleared(m')]_vars

\* a rename of a to "/" has been confirmed and is at work
RenameConfirmed ==
    /\ program = "running" /\ RenameCleared(m) /\ m.loading
    /\ \E i \in 1..Len(cmds) :
          /\ cmds[i].type = "renameFile" /\ cmds[i].pc = "copy"
          /\ cmds[i].oldKey = <<"a">> /\ cmds[i].newFilename = <<"/">>

\* C13: a confirm with an empty new name, or with a new name whose key is the
\* key of an entry of the listing, starts no command and sets the error in
\* the step of the confirm key
RenameRejectedAtOnce ==
    [][(/\ RenameKey("enter")
        /\ \/ m.renameInput = <<>>
           \/ /\ m.renameInput # Base(m.renameOriginal)
              /\ KeyListed(m.objects, RenamedKey(m.renameOriginal, m.renameInput)))
          => cmds' = cmds /\ ~m'.err.isNil]_vars

\* the commands of cs that are renames about to delete
Deleting(cs) == {i \in 1..Len(cs) : cs[i].type = "renameFile" /\ cs[i].pc = "delete"}

\* the message of a rename that failed
RenameFailed(c) == c.type = "fileRenamedMsg" /\ ~c.err.isNil

\* C14: a rename copies old to new and then deletes old: the delete is
\* attempted if and only if the copy succeeded, the result is a failure when
\* either step failed, and after a failed delete the bucket holds both keys
RenameCopiesThenDeletes ==
    [][\A i \in 1..Len(cmds) :
          LET c == cmds[i]
              newKey == RenamedKey(c.oldKey, c.newFilename)
          IN  /\ (RenameCopy(i) /\ ~KeyListed(c.objects, newKey)) =>
                    \/ /\ store' = CopyObject(store, c.oldKey, newKey)
                       /\ Deleting(cmds') = Deleting(cmds) \cup {i}
                    \/ /\ store' = store /\ RenameFailed(cmds'[i])
                       /\ Deleting(cmds') = Deleting(cmds)
              /\ RenameDelete(i) =>
                    /\ i \in Deleting(cmds)
                    /\ \/ /\ store' = DeleteObject(store, c.oldKey)
                          /\ cmds'[i].type = "renameFile" /\ cmds'[i].pc = "yanked"
                       \/ /\ store' = store /\ RenameFailed(cmds'[i])
                          /\ {c.oldKey, newKey} \subseteq DOMAIN store'
              /\ RenameYanked(i) => cmds'[i].type = "fileRenamedMsg" /\ cmds'[i].err.isNil]_vars

\* the delete of a rename of a has failed, and the bucket holds a and the copy
RenameHalfDone ==
    \E i \in 1..Len(cmds) :
        /\ RenameFailed(cmds[i])
        /\ cmds[i].err.text = <<"failed to delete original object during rename">>
        /\ <<"a">> \in DOMAIN store /\ <<"a", "/">> \in DOMAIN store


-----------------------------------------------------------------------------
(* Properties of the commands and of the keys of the browser *)

\* command i takes a step of its own
WorkerStep(i) ==
    \/ RunLoadObjects(i) \/ RunPreviewFileContent(i) \/ RunLoadLocalFiles(i)
    \/ RunUploadFile(i) \/ RunDeleteFile(i) \/ RunDownloadFile(i)
    \/ RenameCopy(i) \/ RenameDelete(i) \/ RenameYanked(i)
    \/ PasteStep(i) \/ StatsSize(i) \/ StatsDate(i)

\* C19: a command ends in exactly one message, and no step of a command
\* writes to what the state holds, its listing, its marked keys and its
\* cache of statistics: these change in steps of Update only
WorkersWriteNothingShared ==
    [][\A i \in 1..Len(cmds) :
          WorkerStep(i) =>
              /\ Len(cmds') = Len(cmds)
              /\ \A j \in 1..Len(cmds) : j # i => cmds'[j] = cmds[j]
              /\ cmds'[i].type = cmds[i].type \/ cmds'[i].pc = "done"
              /\ m' = m
              /\ SliceElems(arrays', m'.yankedFiles) = SliceElems(arrays, m.yankedFiles)]_vars

\* C20: the key "r" in the browser starts exactly one listing command for
\* the current prefix, leaves the prefix as it is and clears the cache of
\* statistics
RefreshKeyLists ==
    [][BrowserKey("r") =>
          /\ \E c \in Range(cmds') :
                cmds' = Append(cmds, c) /\ c.type = "loadObjects" /\ c.currentPath = m.currentPath
          /\ m'.currentPath = m.currentPath
          /\ m'.dirStatsCache = EmptyMap]_vars


-----------------------------------------------------------------------------
(* The browser listing buckets of every shape: walking into directories and *)
(* back, the statistics of the directories, and the local directories of    *)
(* the upload picker                                                        *)

\* the keys a bucket is made of: files of the root, one of them named like
\* the directory d, and files below d and d/e
ListingUniverse ==
    {<<"b">>, <<"a">>, <<"d">>, <<"d", "/", "b">>, <<"d", "/", "e", "/", "a">>}

ListingStores ==
    {[k \in keys |-> StoreObject(Len(k), <<Digits[Len(k)]>>, <<"a">>)] : keys \in SUBSET ListingUniverse}

ListingKeys == {"enter", "backspace", "u"}

ListingUploadKeys == {"down", "enter", "esc"}

InitListing == \E st \in ListingStores : InitOn(st)

NextListing ==
    \/ \E h \in Heights : WindowSize(h)
    \/ \E key \in ListingKeys : BrowserKey(key)
    \/ \E key \in ListingUploadKeys : UploadKey(key)
    \/ \E i \in 1..Len(cmds) : Receive(i)
    \/ \E i \in 1..Len(cmds) : RunLoadObjects(i)
    \/ \E i \in 1..Len(cmds) : RunLoadLocalFiles(i)
    \/ \E i \in 1..Len(cmds) : StatsSize(i)
    \/ \E i \in 1..Len(cmds) : StatsDate(i)

SpecListing == InitListing /\ [][NextListing]_vars


\* the commands a step has appended to cs, given that it removed command i
Appended(cs, i, cs1) == SubSeq(cs1, Len(cs), Len(cs1))

\* the number of directory entries of the listing with the key
DirEntries(objects, key) ==
    Cardinality({j \in 1..Len(objects) : objects[j].IsDir /\ objects[j].Key = key})

InOrder(seq, Name(_)) ==
    \A i, j \in 1..Len(seq) :
        i < j => /\ seq[j].IsDir => seq[i].IsDir
                 /\ seq[i].IsDir = seq[j].IsDir => ~StrLess(Name(seq[j]), Name(seq[i]))

\* a and b hold the same elements, each as often
Permutation(a, b) ==
    /\ Len(a) = Len(b)
    /\ \A x \in Range(a) \cup Range(b) : Times(a, x) = Times(b, x)

\* what loadLocalFiles makes of the entries of a directory before it sorts
LocalEntries(entries) ==
    <<LocalItem(<<".", ".">>, TRUE, 0)>> \o SelectSeq(entries, LAMBDA e : ~HasPrefix(e.Name, <<".">>))

\* C17: the listing and the local listing the state holds have every
\* directory before every file and keys (names) that do not decrease among
\* the directories and among the files; the list a command returns is a
\* permutation of the entries the store (the local directory) returned
ListsInOrder ==
    /\ [](/\ InOrder(m.objects, LAMBDA obj : obj.Key)
          /\ InOrder(m.localItems, LAMBDA item : item.Name))
    /\ [][\A i \in 1..Len(cmds) :
             /\ (RunLoadObjects(i) /\ cmds'[i].err.isNil) =>
                    Permutation(cmds'[i].objects, ListObjects(store, ListPrefix(cmds[i].currentPath)))
             /\ (RunLoadLocalFiles(i) /\ cmds'[i].err.isNil) =>
                    Permutation(cmds'[i].items, LocalEntries(LocalTree[cmds[i].path]))]_vars

\* the root with the directory d and the files a, b and d is listed, and the
\* picker lists the local directory with its one directory first
MixedListings ==
    /\ Len(m.objects) = 4 /\ m.objects[1].IsDir /\ m.objects[4].Key = <<"d">>
    /\ Len(m.localItems) = 3 /\ m.localItems[2].IsDir /\ ~m.localItems[3].IsDir


-----------------------------------------------------------------------------
(* The six views.  The user walks from the browser into each of the other   *)
(* views and out again, and may press a quit key in any of them, while the  *)
(* commands the keys have started are at work.                               *)

QuitKeys == {"q", "ctrl+c"}

ModesBrowserKeys == {"down", "enter", "?", "u", "r", "d"} \cup QuitKeys

ModesViewKeys == {"esc"} \cup QuitKeys

InitModes == InitOn(InitStore)

NextModes ==
    \/ \E h \in Heights : WindowSize(h)
    \/ \E key \in ModesBrowserKeys : BrowserKey(key)
    \/ \E key \in ModesViewKeys : PreviewKey(key)
    \/ \E key \in ModesViewKeys : HelpKey(key)
    \/ \E key \in ModesViewKeys : UploadKey(key)
    \/ \E key \in ModesViewKeys : RenameKey(key)
    \/ \E key \in ModesViewKeys : ConfirmKey(key)
    \/ \E i \in 1..Len(cmds) : Receive(i)
    \/ \E i \in 1..Len(cmds) : RunLoadObjects(i)
    \/ \E i \in 1..Len(cmds) : RunPreviewFileContent(i)
    \/ \E i \in 1..Len(cmds) : RunLoadLocalFiles(i)

SpecModes == InitModes /\ [][NextModes]_vars

\* a key press in the view the program shows
KeyPress(key) ==
    \/ BrowserKey(key) \/ PreviewKey(key) \/ HelpKey(key)
    \/ UploadKey(key) \/ RenameKey(key) \/ ConfirmKey(key)

\* what Update returns to a key in the view of mm
UpdateKey(mm, key) ==
    CASE mm.viewMode = ViewBrowser -> updateBrowser(mm, key)
      [] mm.viewMode = ViewPreview -> updatePreview(mm, key)
      [] mm.viewMode = ViewHelp -> updateHelp(mm, key)
      [] mm.viewMode = ViewUpload -> updateUpload(mm, key)
      [] mm.viewMode = ViewRename -> updateRename(mm, key)
      [] mm.viewMode = ViewConfirm -> updateConfirm(mm, key)

\* C18: in each of the six views q and ctrl+c end the program, whether the
\* browser is loading or not and whatever commands are at work: Update
\* returns tea.Quit alone to the key and leaves the Model as it is, the
\* program ends, and the step starts no command and leaves the bucket alone
QuitKeyQuits ==
    /\ [](program = "running" =>
             \A key \in QuitKeys :
                 /\ UpdateKey(m, key).cmd = <<Quit>>
                 /\ UpdateKey(m, key).m = m
                 /\ MayDispatch(UpdateKey(m, key)))
    /\ [][\A key \in QuitKeys :
             KeyPress(key) =>
                 /\ program' = "quit"
                 /\ m' = m
                 /\ cmds' = <<>>
                 /\ store' = store]_vars

\* the user has quit in the rename dialog while a listing was being loaded
QuitWhileLoading ==
    program = "quit" /\ m.viewMode = ViewRename /\ m.loading

-----------------------------------------------------------------------------
(* The statistics of the directories of one bucket, with the commands and   *)
(* the event loop at work: a select of calculateDirStats returns at its     *)
(* deadline at the latest, and a message that is ready is received          *)

\* the bucket with every key of the universe: d in the root, d/e in d
StatsStore == CHOOSE st \in ListingStores : DOMAIN st = ListingUniverse

StatsDirs == {<<"d">>, <<"d", "/", "e">>}

StatsKeys == {"enter", "backspace", "q"}

InitStats == InitOn(StatsStore)

\* a step of a command or of the event loop on a message
Progress ==
    \E i \in 1..Len(cmds) : Receive(i) \/ RunLoadObjects(i) \/ StatsSize(i) \/ StatsDate(i)

NextStats ==
    \/ \E h \in Heights : WindowSize(h)
    \/ \E key \in StatsKeys : BrowserKey(key)
    \/ Progress

SpecStats == InitStats /\ [][NextStats]_vars /\ WF_vars(Progress)

\* a calculateDirStats for the directory is at work or its message waits
StatsPending(dirKey) ==
    \E i \in 1..Len(cmds) :
        cmds[i].type \in {"calculateDirStats", "dirStatsMsg"} /\ cmds[i].dirKey = dirKey

\* C15: for every calculateDirStats that was started a record of its
\* directory is eventually in the cache, whether the listings of the command
\* return or not, unless the user quits the program first; the first select
\* sets sizeTimeout and leaves the size 0 when the size has failed or was
\* not there at the deadline, and a record with sizeTimeout holds the size 0
StatsEventuallyCached ==
    /\ \A dirKey \in StatsDirs :
           StatsPending(dirKey) ~> (dirKey \in DOMAIN m.dirStatsCache \/ program = "quit")
    /\ [][\A i \in 1..Len(cmds) :
             StatsSize(i) =>
                 \/ cmds'[i].sizeTimeout /\ cmds'[i].size = 0
                 \/ /\ ~cmds'[i].sizeTimeout
                    /\ cmds'[i].size = TotalSize(ListObjects(store, ListPrefix(cmds[i].dirKey)))]_vars
    /\ [](\A dirKey \in DOMAIN m.dirStatsCache :
             m.dirStatsCache[dirKey].SizeTimeout => m.dirStatsCache[dirKey].Size = 0)

\* neither listing of the command for d/e has returned in time, and its
\* record is in the cache
StatsBothTimedOut ==
    /\ <<"d", "/", "e">> \in DOMAIN m.dirStatsCache
    /\ m.dirStatsCache[<<"d", "/", "e">>] = DirStats(0, <<"N/A">>, TRUE, TRUE)

-----------------------------------------------------------------------------
(* Walking the bucket.  The browser has walked into the directory d, holds  *)
(* its listing and the statistics of its one directory, and has marked the  *)
(* file d/b; the user walks on, into d/e or back to the root, and a listing *)
(* may fail.                                                                *)

NavPath == <<"d">>

\* the Model once the listing of d and the statistics of d/e have arrived
NavModel ==
    LET m0 == [NewModel EXCEPT !.currentPath = NavPath, !.height = 10,
                               !.yankedFiles = [arr |-> 1, len |-> 1, cap |-> 1]]
        m1 == OnObjectsLoaded(m0, LoadObjectsResult(loadObjects(m0), StatsStore, TRUE)).m
        listed == ListObjects(StatsStore, ListPrefix(<<"d", "/", "e">>))
        c == [calculateDirStats(m1, <<"d", "/", "e">>) EXCEPT
                 !.size = TotalSize(listed), !.lastModified = LatestDate(listed),
                 !.resolved = {"size", "date"}]
    IN  OnDirStats(m1, dirStatsMsg(c)).m

EnterKeys == {"enter", "l", "o"}

BackKeys == {"backspace", "h"}

NavKeys == EnterKeys \cup BackKeys

InitNav ==
    /\ arrays = << << <<"d", "/", "b">> >> >>
    /\ m = NavModel
    /\ store = StatsStore
    /\ cmds = <<>>
    /\ program = "running"
    /\ started = 0

NextNav ==
    \/ \E key \in NavKeys : BrowserKey(key)
    \/ \E i \in 1..Len(cmds) : Receive(i)
    \/ \E i \in 1..Len(cmds) : RunLoadObjects(i)
    \/ \E i \in 1..Len(cmds) : StatsSize(i)
    \/ \E i \in 1..Len(cmds) : StatsDate(i)

SpecNav == InitNav /\ [][NextNav]_vars

\* the message of a listing that has failed is received from command i
ListingFailed(i) ==
    Receive(i) /\ cmds[i].type = "objectsLoadedMsg" /\ ~cmds[i].err.isNil

\* C21: when the listing the first enter or backspace has asked for fails,
\* the Model is the one before the key press but for the error and the
\* loading flag: the prefix, the listing, the cursor and the cache of the
\* statistics are those the browser had in d
FailedListingRestores ==
    [][\A i \in 1..Len(cmds) :
          (ListingFailed(i) /\ started = 1) =>
              /\ m' = [NavModel EXCEPT !.err = cmds[i].err, !.loading = FALSE]
              /\ m'.currentPath = NavModel.currentPath
              /\ m'.objects = NavModel.objects
              /\ m'.cursor = NavModel.cursor
              /\ m'.dirStatsCache = NavModel.dirStatsCache]_vars


\* the keys that are marked
Marked(h, mm) == SliceElems(h, mm.yankedFiles)

\* a listing has been asked for: cs1 is cs and one loadObjects of prefix
AsksListing(cs, cs1, prefix) ==
    /\ Len(cs1) = Len(cs) + 1
    /\ SubSeq(cs1, 1, Len(cs)) = cs
    /\ cs1[Len(cs1)] = [type |-> "loadObjects", pc |-> "run", currentPath |-> prefix]

\* the message of a listing that has succeeded is received from command i
ListingArrived(i) ==
    Receive(i) /\ cmds[i].type = "objectsLoadedMsg" /\ cmds[i].err.isNil

-----------------------------------------------------------------------------
(* Walking a bucket that has a directory without a name: the key d//a lies  *)
(* in the directory "" of the directory d                                   *)

SlashStore ==
    [k \in {<<"a">>, <<"d", "/", "b">>, <<"d", "/", "/", "a">>} |-> StoreObject(1, <<"1">>, <<"a">>)]

InitBack == InitOn(SlashStore)

NextBack ==
    \/ \E h \in Heights : WindowSize(h)
    \/ NextNav

SpecBack == InitBack /\ [][NextBack]_vars

\* path without its last segment and the "/" before it
DropLast(path) ==
    IF ContainsTok(path, "/") THEN SubSeq(path, 1, LastIndexTok(path, "/") - 1) ELSE <<>>

\* C23: backspace below the root drops the last segment of the prefix (the
\* root is left for a prefix of one segment), empties the cache of the
\* statistics, sets loading and starts one loadObjects; at the root it
\* changes nothing and starts nothing.  Enter makes the key of a directory
\* entry the prefix, so enter and then backspace lead back to the prefix P
\* the entry was listed under when every directory entry of a listing made
\* for P has a key that is P and one more segment
BackRestoresPrefix ==
    [][
        /\ \A key \in BackKeys :
             BrowserKey(key) =>
                 IF m.currentPath # <<>>
                 THEN /\ m' = [m EXCEPT !.currentPath = DropLast(m.currentPath),
                                         !.dirStatsCache = EmptyMap,
                                         !.loading = TRUE]
                      /\ AsksListing(cmds, cmds', DropLast(m.currentPath))
                 ELSE m' = m /\ cmds' = cmds
        /\ \A i \in 1..Len(cmds) :
             (RunLoadObjects(i) /\ cmds'[i].err.isNil) =>
                 \A j \in 1..Len(cmds'[i].objects) :
                     cmds'[i].objects[j].IsDir =>
                         updateBrowser([m EXCEPT !.currentPath = cmds'[i].objects[j].Key],
                                       "backspace").m.currentPath = cmds[i].currentPath]_vars


-----------------------------------------------------------------------------
(* The preview.  The user opens the files of the bucket, one of text and    *)
(* one that is no text, scrolls and leaves, in windows of several heights;  *)
(* the height 0 is the one the Model has before the terminal reports any    *)

PreviewHeights == {0, 7, 9, 10}

PreviewBrowserKeys == {"down", "enter", "l"}

PreviewScrollKeys == {"up", "down", "pgup", "pgdown", "home", "end"}

PreviewLeaveKeys == {"esc", "backspace", "h", "left"}

InitPreview == InitOn(InitStore)

NextPreview ==
    \/ \E h \in PreviewHeights : WindowSize(h)
    \/ \E key \in PreviewBrowserKeys : BrowserKey(key)
    \/ \E key \in PreviewScrollKeys \cup PreviewLeaveKeys : PreviewKey(key)
    \/ \E i \in 1..Len(cmds) : Receive(i)
    \/ \E i \in 1..Len(cmds) : RunLoadObjects(i)
    \/ \E i \in 1..Len(cmds) : RunPreviewFileContent(i)

SpecPreview == InitPreview /\ [][NextPreview]_vars


\* the buffers of the preview
PreviewBuffers(mm) ==
    <<mm.previewContent, mm.previewFileName, mm.previewLines, mm.previewScroll>>

\* C24: enter on a file starts one previewFileContent of its key and leaves
\* the Model, with the view, as it is; the command returns the bytes of the
\* object when they are valid text, else the placeholder, or an error; the
\* message of a success shows the preview of that content from its first
\* line, the message of a failure sets the error and leaves the view and
\* the buffers as they are; esc, backspace, h and left in the preview
\* return to the browser with the buffers emptied and previewScroll 0
PreviewShowsContent ==
    [][
        /\ \A key \in EnterKeys :
             (BrowserKey(key) /\ CursorInObjects(m) /\ ~Selected(m).IsDir) =>
                 /\ m' = m
                 /\ cmds' = Append(cmds, [type |-> "previewFileContent", pc |-> "run",
                                          key |-> Selected(m).Key])
        /\ \A i \in 1..Len(cmds) :
             /\ (RunPreviewFileContent(i) /\ cmds'[i].err.isNil) =>
                    /\ cmds'[i].file = cmds[i].key
                    /\ cmds'[i].content =
                           IF Utf8Valid(store[cmds[i].key].Data) THEN store[cmds[i].key].Data
                           ELSE BinaryPlaceholder
             /\ (Receive(i) /\ cmds[i].type = "previewLoadedMsg") =>
                    IF cmds[i].err.isNil
                    THEN /\ m'.viewMode = ViewPreview
                         /\ m'.previewScroll = 0
                         /\ m'.previewContent = cmds[i].content
                         /\ m'.previewFileName = cmds[i].file
                    ELSE /\ m' = [m EXCEPT !.err = cmds[i].err]
                         /\ m'.viewMode = m.viewMode
                         /\ PreviewBuffers(m') = PreviewBuffers(m)
        /\ \A key \in PreviewLeaveKeys :
             PreviewKey(key) =>
                 /\ m'.viewMode = ViewBrowser
                 /\ PreviewBuffers(m') = <<<<>>, <<>>, <<>>, 0>>
                 /\ cmds' = cmds
      ]_vars

\* the preview of an object that is no text shows the placeholder
BinaryPreviewed ==
    /\ m.viewMode = ViewPreview /\ m.previewContent = BinaryPlaceholder
    /\ m.previewFileName = <<"d", "/", "a">> /\ ~Utf8Valid(store[<<"d", "/", "a">>].Data)


\* viewPreview: the lines of the content a window of height h shows
PreviewVisibleHeight(h) == IF h - Chrome < 1 THEN 10 ELSE h - Chrome

\* the largest of a and b
Max(a, b) == IF a > b THEN a ELSE b

\* C25: in the preview, whatever keys have scrolled it and whatever the
\* height of the window, previewScroll is at least 0 and at most the number
\* of lines less the lines the view shows, or 0; so a content with lines
\* has a line in view
PreviewScrollInRange ==
    m.viewMode = ViewPreview =>
        /\ 0 <= m.previewScroll
        /\ m.previewScroll <= Max(0, Len(m.previewLines) - PreviewVisibleHeight(m.height))
        /\ Len(m.previewLines) > 0 => m.previewScroll < Len(m.previewLines)


-----------------------------------------------------------------------------
(* Marking.  The root of the bucket lists a directory and three files; the  *)
(* user moves over them, marks and unmarks, and clears the marks.           *)

MarkKeys == {"up", "down", "y", "c"}

InitMark == InitOn(StatsStore)

NextMark ==
    \/ \E h \in Heights : WindowSize(h)
    \/ \E key \in MarkKeys : BrowserKey(key)
    \/ \E i \in 1..Len(cmds) : Receive(i)
    \/ \E i \in 1..Len(cmds) : RunLoadObjects(i)

SpecMark == InitMark /\ [][NextMark]_vars

\* seq without its elements equal to x
Without(seq, x) == SelectSeq(seq, LAMBDA y : y # x)

\* C26: y on a file appends its key to the marked keys when it is not among
\* them and removes it when it is, the other marked keys staying as they
\* are and in their order, and then moves the cursor down by one unless it
\* is on the last entry; y on a directory or on an empty listing changes
\* neither the marked keys nor the cursor; no key is marked twice
MarkToggles ==
    /\ [](\A key \in Range(Marked(arrays, m)) : Times(Marked(arrays, m), key) = 1)
    /\ [][BrowserKey("y") =>
            IF m.objects # <<>> /\ CursorInObjects(m) /\ ~Selected(m).IsDir
            THEN /\ Marked(arrays', m') =
                        IF Selected(m).Key \in Range(Marked(arrays, m))
                        THEN Without(Marked(arrays, m), Selected(m).Key)
                        ELSE Append(Marked(arrays, m), Selected(m).Key)
                 /\ m'.cursor = IF m.cursor = Len(m.objects) - 1 THEN m.cursor ELSE m.cursor + 1
                 /\ m'.objects = m.objects
            ELSE /\ Marked(arrays', m') = Marked(arrays, m)
                 /\ m'.cursor = m.cursor]_vars

\* of the two files marked, a and then b, the first has been unmarked: b
\* stays marked, and the cursor has moved on to b
FirstOfTwoUnmarked ==
    /\ Marked(arrays, m) = << <<"b">> >> /\ m.yankedFiles.cap = 2
    /\ m.cursor = 2 /\ m.objects[3].Key = <<"b">>


-----------------------------------------------------------------------------
(* Half pages.  The root of the bucket lists four entries; the user moves   *)
(* by half pages in windows of several heights, and visits the upload       *)
(* picker, whose listings are longer.                                       *)

HalfHeights == {0, 14}

HalfKeys == {"down", "ctrl+d", "ctrl+u", "u"}

InitHalf == InitOn(StatsStore)

NextHalf ==
    \/ \E h \in HalfHeights : WindowSize(h)
    \/ \E key \in HalfKeys : BrowserKey(key)
    \/ \E key \in ScrollUploadKeys : UploadKey(key)
    \/ \E i \in 1..Len(cmds) : Receive(i)
    \/ \E i \in 1..Len(cmds) : RunLoadObjects(i)
    \/ \E i \in 1..Len(cmds) : RunLoadLocalFiles(i)

SpecHalf == InitHalf /\ [][NextHalf]_vars

\* the entries half a page is, as specified: max(1, floor(max(5, h - 8) / 2))
HalfPage(h) == Max(1, Max(5, h - Chrome) \div 2)

\* c within lo..hi, or the nearer end
Clamp(c, lo, hi) == IF c < lo THEN lo ELSE IF c > hi THEN hi ELSE c

\* what a press of ctrl+d or ctrl+u has to make of the Model mm
HalfPageMoved(key, mm, mm1) ==
    IF mm.objects = <<>>
    THEN mm1.cursor = mm.cursor /\ mm1.scrollOffset = mm.scrollOffset
    ELSE mm1.cursor = Clamp(IF key = "ctrl+d" THEN mm.cursor + HalfPage(mm.height)
                            ELSE mm.cursor - HalfPage(mm.height),
                            0, Len(mm.objects) - 1)

\* C27: ctrl+d and ctrl+u in the browser move the cursor by half a page
\* towards the end and the start of the listing, and no further than its
\* last and first entry; on an empty listing they change neither the cursor
\* nor scrollOffset
HalfPageMoves ==
    [][\A key \in {"ctrl+d", "ctrl+u"} : BrowserKey(key) => HalfPageMoved(key, m, m')]_vars

\* the same for a press with the cursor on an entry of the listing
HalfPageMovesInList ==
    [][\A key \in {"ctrl+d", "ctrl+u"} :
          (BrowserKey(key) /\ (m.objects = <<>> \/ CursorInObjects(m))) =>
              HalfPageMoved(key, m, m')]_vars


-----------------------------------------------------------------------------
(* Editing a name.  The user opens the rename dialog on a file of the root  *)
(* and edits the name with every editing key of the dialog.                 *)

EditBrowserKeys == {"up", "down", "r"}

EditKeys ==
    {"a", "b", " ", "backspace", "delete", "left", "right", "home", "end", "ctrl+a", "ctrl+e",
     "ctrl+u", "ctrl+w"}

InitEdit == InitOn(StatsStore)

NextEdit ==
    \/ \E h \in Heights : WindowSize(h)
    \/ \E key \in EditBrowserKeys : BrowserKey(key)
    \/ \E key \in EditKeys \cup {"esc"} : RenameKey(key)
    \/ \E i \in 1..Len(cmds) : Receive(i)
    \/ \E i \in 1..Len(cmds) : RunLoadObjects(i)

SpecEdit == InitEdit /\ [][NextEdit]_vars

\* s[lo:hi] of a Go string of n bytes does not panic
SliceOk(lo, hi, n) == 0 <= lo /\ lo <= hi /\ hi <= n

\* the slices and the index updateRename takes of the buffer for an editing
\* key are in range
EditInRange(input, cursor, key) ==
    LET n == Len(input) IN
    CASE key = "backspace" ->
            (cursor > 0 /\ n > 0) => SliceOk(0, cursor - 1, n) /\ SliceOk(cursor, n, n)
      [] key = "delete" -> cursor < n => SliceOk(0, cursor, n) /\ SliceOk(cursor + 1, n, n)
      [] key = "ctrl+u" -> SliceOk(cursor, n, n)
      [] key = "ctrl+w" ->
            cursor > 0 =>
                /\ cursor - 1 < n
                /\ SliceOk(0, WordStart(input, cursor), n) /\ SliceOk(cursor, n, n)
      [] key \in {"left", "right", "home", "end", "ctrl+a", "ctrl+e"} -> TRUE
      [] OTHER -> Printable(key) => SliceOk(0, cursor, n) /\ SliceOk(cursor, n, n)

\* C28: the rename dialog is opened by r on a file, and by nothing else,
\* with the base name of the selected key in the buffer and the cursor at
\* its end; in every state the dialog cursor is within 0..len(buffer), and
\* every editing key slices the buffer within its bounds
RenameCursorInBuffer ==
    /\ [](0 <= m.renameCursor /\ m.renameCursor <= Len(m.renameInput))
    /\ [][
            /\ (m.viewMode # ViewRename /\ m'.viewMode = ViewRename) =>
                   /\ BrowserKey("r") /\ CursorInObjects(m) /\ ~Selected(m).IsDir
                   /\ m'.renameInput = Base(Selected(m).Key)
                   /\ m'.renameCursor = Len(m'.renameInput)
            /\ (BrowserKey("r") /\ CursorInObjects(m) /\ Selected(m).IsDir) => m' = m
            /\ \A key \in EditKeys :
                   RenameKey(key) => EditInRange(m.renameInput, m.renameCursor, key)
       ]_vars

\* a space has been typed before the name a, and the cursor is between them
TypedBeforeName ==
    m.viewMode = ViewRename /\ m.renameInput = <<" ", "a">> /\ m.renameCursor = 1



-----------------------------------------------------------------------------
(* The parent entry of the upload picker *)

LocalListingInstalled(i) ==
    /\ Receive(i)
    /\ cmds[i].type = "localFilesLoadedMsg"
    /\ cmds[i].err.isNil

ParentEntry == LocalItem(<<".", ".">>, TRUE, 0)

\* C29: every local listing installed in the upload picker has the parent
\* entry '..' as its first entry, and no other entry of it has a name that
\* begins with '.'.
ParentEntryFirst ==
    [][\A i \in 1..Len(cmds) : LocalListingInstalled(i) =>
          /\ m'.viewMode = ViewUpload
          /\ Len(m'.localItems) >= 1
          /\ m'.localItems[1] = ParentEntry
          /\ \A k \in 2..Len(m'.localItems) : ~HasPrefix(m'.localItems[k].Name, <<".">>)]_vars

\* the part of C29 the code keeps: '..' occurs exactly once, hidden names
\* are left out, and '..' is first among the entries that sort after it
ParentEntryPresent ==
    [][\A i \in 1..Len(cmds) : LocalListingInstalled(i) =>
          /\ Cardinality({k \in 1..Len(m'.localItems) : HasPrefix(m'.localItems[k].Name, <<".">>)}) = 1
          /\ \E k \in 1..Len(m'.localItems) :
                /\ m'.localItems[k] = ParentEntry
                /\ \A j \in 1..(k - 1) : /\ m'.localItems[j].IsDir
                                         /\ StrLess(m'.localItems[j].Name, <<".", ".">>)]_vars


-----------------------------------------------------------------------------
(* The listing asked for again after an operation on the bucket *)

RefreshBrowserKeys == {"down", "enter", "d", "x", "u", "y", "p", "r"}

RefreshUploadKeys == {"down", "enter"}

RefreshRenameKeys == {"b", "enter"}

InitRefresh == InitOn(InitStore)

NextRefresh ==
    \/ \E h \in Heights : WindowSize(h)
    \/ \E key \in RefreshBrowserKeys : BrowserKey(key)
    \/ \E key \in RefreshUploadKeys : UploadKey(key)
    \/ \E key \in RefreshRenameKeys : RenameKey(key)
    \/ ConfirmKey("y")
    \/ \E i \in 1..Len(cmds) : Receive(i)
    \/ \E i \in 1..Len(cmds) : RunLoadObjects(i)
    \/ \E i \in 1..Len(cmds) : RunLoadLocalFiles(i)
    \/ \E i \in 1..Len(cmds) : RunUploadFile(i)
    \/ \E i \in 1..Len(cmds) : RunDeleteFile(i)
    \/ \E i \in 1..Len(cmds) : RunDownloadFile(i)
    \/ \E i \in 1..Len(cmds) : PasteStep(i)
    \/ \E i \in 1..Len(cmds) : RenameCopy(i)
    \/ \E i \in 1..Len(cmds) : RenameDelete(i)
    \/ \E i \in 1..Len(cmds) : RenameYanked(i)

SpecRefresh == InitRefresh /\ [][NextRefresh]_vars

\* the results of the operations that change the bucket
ChangeResults == {"fileUploadedMsg", "fileDeletedMsg", "fileCopiedMsg", "fileRenamedMsg"}

\* the commands a step has started when it took the message of command i
StartedBy(i) == SubSeq(cmds', Len(cmds), Len(cmds'))

\* C30: Update on a successful result of upload, delete, paste or rename
\* starts exactly one loadObjects, of the current prefix; Update on a failed
\* result of these, and on every result of a download, starts no command.
RefreshAfterChange ==
    [][\A i \in 1..Len(cmds) :
          /\ (Receive(i) /\ cmds[i].type \in ChangeResults /\ cmds[i].err.isNil)
                => /\ RemoveCmd(cmds, i) = SubSeq(cmds', 1, Len(cmds) - 1)
                   /\ StartedBy(i) = << [type |-> "loadObjects", pc |-> "run",
                                         currentPath |-> m.currentPath] >>
                   /\ m'.currentPath = m.currentPath
          /\ (Receive(i) /\ \/ cmds[i].type \in ChangeResults /\ ~cmds[i].err.isNil
                            \/ cmds[i].type = "fileDownloadedMsg")
                => cmds' = RemoveCmd(cmds, i)]_vars


\* file a of the root was deleted while the user walked into directory d:
\* the listing asked for is that of d
RefreshedWhereTheUserIs ==
    /\ m.currentPath = <<"d">>
    /\ m.statusMessage = <<"Deleted '", "a", "' successfully">>
    /\ Len(cmds) >= 1
    /\ cmds[Len(cmds)] = [type |-> "loadObjects", pc |-> "run", currentPath |-> <<"d">>]


-----------------------------------------------------------------------------
(* The deadlines of calculateDirStats.  Time is counted in half seconds     *)
(* from the launch of the command, which starts both goroutines; each       *)
(* goroutine delivers its value or its error at a time the bucket decides.  *)

\* time.After(1 * time.Second) of the first select
SizeDeadline == 2
\* time.After(2 * time.Second) of the second select
DateDeadline == 4
\* the longest a goroutine takes
MaxElapsed == 7

\* when the goroutines deliver, and whether they deliver an error
Timings ==
    [sizeAt : 0..MaxElapsed, sizeErr : BOOLEAN, dateAt : 0..MaxElapsed, dateErr : BOOLEAN]

\* the time the first select returns: on the size, its error or its timer
SizeSelectedAt(c) == IF c.sizeAt <= SizeDeadline THEN c.sizeAt ELSE SizeDeadline

\* the time the timer of the second select fires: it is made when the
\* second select is reached
DateTimerAt(c) == SizeSelectedAt(c) + DateDeadline

\* the first select, with the case that the times allow; a select with two
\* cases ready takes either
StatsSizeTimed(i) ==
    /\ StatsSize(i)
    /\ LET c == cmds[i] IN
       \/ c.sizeAt >= SizeDeadline /\ cmds'[i].sizeTimeout
       \/ c.sizeAt <= SizeDeadline /\ c.sizeErr /\ cmds'[i].sizeTimeout
       \/ c.sizeAt <= SizeDeadline /\ ~c.sizeErr /\ ~cmds'[i].sizeTimeout

\* the second select, with the case that the times allow
StatsDateTimed(i) ==
    /\ StatsDate(i)
    /\ LET c == cmds[i] IN
       \/ c.dateAt >= DateTimerAt(c) /\ cmds'[i].dateTimeout
       \/ c.dateAt <= DateTimerAt(c) /\ c.dateErr /\ cmds'[i].dateTimeout
       \/ c.dateAt <= DateTimerAt(c) /\ ~c.dateErr /\ ~cmds'[i].dateTimeout

\* the root of the bucket has been listed and the statistics of its
\* directory have been launched
InitTimed ==
    /\ arrays = [a \in {} |-> <<>>]
    /\ \E t \in Timings :
          LET m0 == [NewModel EXCEPT !.height = 10]
              r == OnObjectsLoaded(m0, LoadObjectsResult(loadObjects(m0), StatsStore, TRUE))
          IN  /\ m = r.m
              /\ cmds = [k \in 1..Len(r.cmd) |-> r.cmd[k] @@ t]
    /\ store = StatsStore
    /\ program = "running"
    /\ started = 0

NextTimed ==
    \/ \E i \in 1..Len(cmds) : StatsSizeTimed(i)
    \/ \E i \in 1..Len(cmds) : StatsDateTimed(i)
    \/ \E i \in 1..Len(cmds) : Receive(i)

SpecTimed == InitTimed /\ [][NextTimed]_vars

\* the size is decided by the size goroutine and the size deadline alone
SizeDecidedAlone(c, c1) ==
    /\ c.sizeAt > SizeDeadline => c1.sizeTimeout
    /\ (c.sizeAt <= SizeDeadline /\ c.sizeErr) => c1.sizeTimeout
    /\ (c.sizeAt < SizeDeadline /\ ~c.sizeErr) => ~c1.sizeTimeout

\* C31: each dimension of calculateDirStats is decided by its own
\* computation and its own deadline, counted from the launch: a date that
\* has not been delivered within the date deadline after the launch gives
\* dateTimeout, whenever the size was decided, and the size is decided
\* without regard to the date goroutine.
DimensionsDecidedAlone ==
    [][\A i \in 1..Len(cmds) :
          /\ StatsSizeTimed(i) => SizeDecidedAlone(cmds[i], cmds'[i])
          /\ StatsDateTimed(i) => (cmds[i].dateAt > DateDeadline => cmds'[i].dateTimeout)]_vars

\* what the code does: the date deadline is counted from the return of the
\* first select
DateDecidedAfterSize ==
    [][\A i \in 1..Len(cmds) :
          /\ StatsSizeTimed(i) => SizeDecidedAlone(cmds[i], cmds'[i])
          /\ StatsDateTimed(i) =>
                /\ cmds[i].dateAt > DateTimerAt(cmds[i]) => cmds'[i].dateTimeout
                /\ (cmds[i].dateAt < DateTimerAt(cmds[i]) /\ ~cmds[i].dateErr)
                      => ~cmds'[i].dateTimeout]_vars


-----------------------------------------------------------------------------
(* What the statistics of a directory count *)

\* the keys of the files below the directory, at any depth
Descendants(st, dirKey) ==
    {k \in DOMAIN st : HasPrefix(k, ListPrefix(dirKey)) /\ ~HasSuffix(k, <<"/">>)}

\* the keys of the files in the directory itself
Children(st, dirKey) ==
    {k \in Descendants(st, dirKey) :
        ~ContainsTok(SubSeq(k, Len(ListPrefix(dirKey)) + 1, Len(k)), "/")}

RECURSIVE SumOfSizes(_, _)
SumOfSizes(st, keys) ==
    IF keys = {} THEN 0
    ELSE LET k == CHOOSE x \in keys : TRUE IN st[k].Size + SumOfSizes(st, keys \ {k})

\* the latest LastModified of the keys, "N/A" when there is none
LatestOf(st, keys) ==
    IF keys = {} THEN <<"N/A">>
    ELSE LET k == CHOOSE x \in keys : \A y \in keys : ~StrLess(st[x].LastModified, st[y].LastModified)
         IN  st[k].LastModified

\* the records of the cache whose size and date were both delivered hold
\* the size and the latest date of the files with the keys Of(st, dirKey)
StatsCount(Of(_, _)) ==
    \A dirKey \in DOMAIN m.dirStatsCache :
        LET s == m.dirStatsCache[dirKey] IN
        (~s.SizeTimeout /\ ~s.DateTimeout)
            => /\ s.Size = SumOfSizes(store, Of(store, dirKey))
               /\ s.LastModified = LatestOf(store, Of(store, dirKey))

\* C32: when both dimensions of the statistics of a directory succeed, the
\* cached size is the sum of the sizes of all files at any depth below the
\* directory and the cached date is the latest LastModified among them.
StatsCountDescendants == StatsCount(Descendants)

\* what the code does: ListObjects lists with the delimiter "/", so the
\* statistics count the files in the directory itself
StatsCountChildren == StatsCount(Children)


-----------------------------------------------------------------------------
(* Marks made while a rename is at work.  The root holds the files a and b; *)
(* the statistics of its directory are started and have not yet run.        *)

RemarkBrowserKeys == {"up", "down", "y", "r"}

RemarkKeys == {"c", "enter"}

InitRemark == InitOn(StatsStore)

NextRemark ==
    \/ \E h \in Heights : WindowSize(h)
    \/ \E key \in RemarkBrowserKeys : BrowserKey(key)
    \/ \E key \in RemarkKeys :
          ((key = "enter" /\ RenameWanted(m)) => started < MaxRenames) /\ RenameKey(key)
    \/ \E i \in 1..Len(cmds) : Receive(i)
    \/ \E i \in 1..Len(cmds) : RunLoadObjects(i)
    \/ \E i \in 1..Len(cmds) : RenameCopy(i)
    \/ \E i \in 1..Len(cmds) : RenameDelete(i)
    \/ \E i \in 1..Len(cmds) : RenameYanked(i)

SpecRemark == InitRemark /\ [][NextRemark]_vars

\* seq with every x replaced by y
Replaced(seq, x, y) == [j \in 1..Len(seq) |-> IF seq[j] = x THEN y ELSE seq[j]]

\* the message of a rename that has succeeded is received from command i
RenameArrived(i) ==
    Receive(i) /\ cmds[i].type = "fileRenamedMsg" /\ cmds[i].err.isNil

\* the command finds its old key among the marked keys it has captured
FindsOldKey(c) == YankedIndex(arrays, c.yankedFiles, c.oldKey) >= 0

\* C33: when a rename has succeeded on a key that was marked when the rename
\* was started and that the Model holds as marked, the marked keys of the
\* Model hold the new key in place of the old one, whatever was marked or
\* unmarked while the rename was at work, and the receipt of the result
\* leaves the marked keys as they are.
RenamedKeyStaysMarked ==
    [][\A i \in 1..Len(cmds) :
          /\ (RenameYanked(i) /\ FindsOldKey(cmds[i]) /\ cmds[i].oldKey \in Range(Marked(arrays, m)))
                => Marked(arrays', m') = Replaced(Marked(arrays, m), cmds[i].oldKey, cmds'[i].newKey)
          /\ RenameArrived(i) => Marked(arrays', m') = Marked(arrays, m)]_vars

\* the same when the Model still holds the slice the command has captured
RenamedKeyStaysMarkedUntouched ==
    [][\A i \in 1..Len(cmds) :
          /\ (RenameYanked(i) /\ FindsOldKey(cmds[i]) /\ cmds[i].oldKey \in Range(Marked(arrays, m))
                             /\ m.yankedFiles.arr = cmds[i].yankedFiles.arr)
                => Marked(arrays', m') = Replaced(Marked(arrays, m), cmds[i].oldKey, cmds'[i].newKey)
          /\ RenameArrived(i) => Marked(arrays', m') = Marked(arrays, m)]_vars


-----------------------------------------------------------------------------
(* The goroutines of calculateDirStats and their channels.  The command     *)
(* starts one goroutine for the size and one for the date; each lists the   *)
(* directory and sends its value or its error on a channel of its own; the  *)
(* two selects of the command receive from the channels or give up at the   *)
(* timer.  A goroutine outlives the command that started it.                *)

\* make(chan int64, 1), make(chan error, 1), make(chan string, 1)
ChanCap == 1

\* a goroutine with its two channels, after the go statement
goroutine(dim, dirKey) ==
    [type |-> "goroutine", pc |-> "list", dim |-> dim, dirKey |-> dirKey,
     size |-> 0, date |-> <<>>, valChan |-> <<>>, errChan |-> <<>>, late |-> FALSE]

IsGoroutine(g, dim, dirKey) ==
    cmds[g].type = "goroutine" /\ cmds[g].dim = dim /\ cmds[g].dirKey = dirKey

Launched(dirKey) == \E g \in 1..Len(cmds) : IsGoroutine(g, "size", dirKey)

GoIndex(dim, dirKey) == CHOOSE g \in 1..Len(cmds) : IsGoroutine(g, dim, dirKey)

\* a select of the command for dirKey is, or will be, waiting for dim
Awaited(dim, dirKey) ==
    \E i \in 1..Len(cmds) :
        /\ cmds[i].type = "calculateDirStats" /\ cmds[i].dirKey = dirKey
        /\ dim = "size" => cmds[i].pc = "size"

\* the command makes the channels and starts the goroutines
Launch(i) ==
    /\ Working(i, "calculateDirStats", "size")
    /\ ~Launched(cmds[i].dirKey)
    /\ cmds' = cmds \o <<goroutine("size", cmds[i].dirKey), goroutine("date", cmds[i].dirKey)>>
    /\ UNCHANGED <<m, arrays, store, program, started>>

\* the goroutine lists the directory and sums up what it has listed
GoList(g) ==
    /\ Working(g, "goroutine", "list")
    /\ LET c == cmds[g]
           objects == ListObjects(store, ListPrefix(c.dirKey))
       IN  \/ cmds' = ReplaceCmd(cmds, g, [c EXCEPT !.pc = "sendErr"])
           \/ cmds' = ReplaceCmd(cmds, g, IF c.dim = "size"
                                          THEN [c EXCEPT !.pc = "send", !.size = TotalSize(objects)]
                                          ELSE [c EXCEPT !.pc = "send", !.date = LatestDate(objects)])
    /\ UNCHANGED <<m, arrays, store, program, started>>

\* a send that waits for the select to receive, as on a channel without buffer
GoSendUnbuffered(g) ==
    /\ program = "running"
    /\ g \in 1..Len(cmds) /\ cmds[g].type = "goroutine" /\ cmds[g].pc \in {"send", "sendErr"}
    /\ Awaited(cmds[g].dim, cmds[g].dirKey)
    /\ LET c == cmds[g]
           c1 == [c EXCEPT !.pc = "ended"]
       IN  cmds' = ReplaceCmd(cmds, g, IF c.pc = "send"
                                       THEN [c1 EXCEPT !.valChan = Append(@, [size |-> c.size, date |-> c.date])]
                                       ELSE [c1 EXCEPT !.errChan = Append(@, "err")])
    /\ UNCHANGED <<m, arrays, store, program, started>>

\* the goroutine sends on its channel and ends; a send on a channel whose
\* buffer is full waits
GoSend(g) ==
    /\ program = "running"
    /\ g \in 1..Len(cmds) /\ cmds[g].type = "goroutine" /\ cmds[g].pc \in {"send", "sendErr"}
    /\ LET c == cmds[g]
           c1 == [c EXCEPT !.pc = "ended", !.late = ~Awaited(c.dim, c.dirKey)]
       IN  IF c.pc = "send"
           THEN /\ Len(c.valChan) < ChanCap
                /\ cmds' = ReplaceCmd(cmds, g, [c1 EXCEPT !.valChan = Append(@, [size |-> c.size, date |-> c.date])])
           ELSE /\ Len(c.errChan) < ChanCap
                /\ cmds' = ReplaceCmd(cmds, g, [c1 EXCEPT !.errChan = Append(@, "err")])
    /\ UNCHANGED <<m, arrays, store, program, started>>

\* the first select: the size, the error of the size, or the timer
SelectSize(i) ==
    /\ Working(i, "calculateDirStats", "size")
    /\ Launched(cmds[i].dirKey)
    /\ LET c == cmds[i]
           g == GoIndex("size", c.dirKey)
           c1 == [c EXCEPT !.pc = "date", !.resolved = c.resolved \cup {"size"}]
       IN  \/ cmds' = ReplaceCmd(cmds, i, [c1 EXCEPT !.sizeTimeout = TRUE])
           \/ /\ cmds[g].errChan # <<>>
              /\ cmds' = [cmds EXCEPT ![i] = [c1 EXCEPT !.sizeTimeout = TRUE], ![g].errChan = Tail(@)]
           \/ /\ cmds[g].valChan # <<>>
              /\ cmds' = [cmds EXCEPT ![i] = [c1 EXCEPT !.size = Head(cmds[g].valChan).size],
                                      ![g].valChan = Tail(@)]
    /\ UNCHANGED <<m, arrays, store, program, started>>

\* the second select: the date, the error of the date, or the timer; the
\* command returns its message
SelectDate(i) ==
    /\ Working(i, "calculateDirStats", "date")
    /\ LET c == cmds[i]
           g == GoIndex("date", c.dirKey)
           c1 == [c EXCEPT !.resolved = c.resolved \cup {"date"}]
       IN  \/ cmds' = ReplaceCmd(cmds, i, dirStatsMsg([c1 EXCEPT !.dateTimeout = TRUE]))
           \/ /\ cmds[g].errChan # <<>>
              /\ cmds' = [cmds EXCEPT ![i] = dirStatsMsg([c1 EXCEPT !.dateTimeout = TRUE]),
                                      ![g].errChan = Tail(@)]
           \/ /\ cmds[g].valChan # <<>>
              /\ cmds' = [cmds EXCEPT ![i] = dirStatsMsg([c1 EXCEPT !.lastModified = Head(cmds[g].valChan).date]),
                                      ![g].valChan = Tail(@)]
    /\ UNCHANGED <<m, arrays, store, program, started>>

\* the root of the bucket has been listed and the command for its directory
\* has been started
InitLate ==
    /\ arrays = [a \in {} |-> <<>>]
    /\ LET m0 == [NewModel EXCEPT !.height = 10]
           r == OnObjectsLoaded(m0, LoadObjectsResult(loadObjects(m0), StatsStore, TRUE))
       IN  m = r.m /\ cmds = r.cmd
    /\ store = StatsStore
    /\ program = "running"
    /\ started = 0

\* a goroutine that is ready to send
Sending == \E g \in 1..Len(cmds) : GoSend(g)

NextLate ==
    \/ \E i \in 1..Len(cmds) : Launch(i)
    \/ \E g \in 1..Len(cmds) : GoList(g)
    \/ Sending
    \/ \E i \in 1..Len(cmds) : SelectSize(i)
    \/ \E i \in 1..Len(cmds) : SelectDate(i)
    \/ \E i \in 1..Len(cmds) : Receive(i)

SpecLate == InitLate /\ [][NextLate]_vars /\ WF_vars(Sending)


\* the results there are of the statistics of the directory: the command at
\* work, its message, the record in the cache
ResultsOf(dirKey) ==
    Cardinality({i \in 1..Len(cmds) : /\ cmds[i].type \in {"calculateDirStats", "dirStatsMsg"}
                                      /\ cmds[i].dirKey = dirKey})
        + (IF dirKey \in DOMAIN m.dirStatsCache THEN 1 ELSE 0)

\* goroutine g is at its send
AtSend(g) == cmds[g].type = "goroutine" /\ cmds[g].pc \in {"send", "sendErr"}

\* the goroutine of the dimension has ended
Ended(dim) ==
    \E g \in 1..Len(cmds) : cmds[g].type = "goroutine" /\ cmds[g].dim = dim /\ cmds[g].pc = "ended"

\* C34: a goroutine of calculateDirStats that has its value or its error
\* only after the select of its dimension has returned changes nothing of
\* the result: its steps leave the Model, the command and the message as
\* they are, a message once made and a record once cached stay as they are,
\* there is never a second result for the directory, the channel it sends
\* on has room, and it ends.
LateResultDiscarded ==
    /\ [][\A g \in 1..Len(cmds) :
             /\ (GoList(g) \/ GoSend(g))
                   => /\ m' = m
                      /\ Len(cmds') = Len(cmds)
                      /\ \A j \in 1..Len(cmds) : j # g => cmds'[j] = cmds[j]
             /\ (cmds[g].type = "dirStatsMsg" /\ ~Receive(g))
                   => (g \in 1..Len(cmds') /\ cmds'[g] = cmds[g])
             /\ cmds[g].type = "dirStatsMsg" /\ Receive(g)
                   => m'.dirStatsCache[cmds[g].dirKey] =
                          DirStats(cmds[g].size, cmds[g].lastModified, cmds[g].sizeTimeout, cmds[g].dateTimeout)]_vars
    /\ [][\A dirKey \in DOMAIN m.dirStatsCache :
             dirKey \in DOMAIN m'.dirStatsCache /\ m'.dirStatsCache[dirKey] = m.dirStatsCache[dirKey]]_vars
    /\ [](ResultsOf(<<"d">>) = 1)
    /\ [](\A g \in 1..Len(cmds) :
             AtSend(g) => Len(IF cmds[g].pc = "send" THEN cmds[g].valChan ELSE cmds[g].errChan) < ChanCap)
    /\ \A dim \in {"size", "date"} :
           (\E g \in 1..Len(cmds) : AtSend(g) /\ cmds[g].dim = dim) ~> Ended(dim)

\* the size was sent after the first select had given up, and stays in its
\* channel; the record in the cache is the one of the timeout
SizeSentLate ==
    /\ <<"d">> \in DOMAIN m.dirStatsCache
    /\ m.dirStatsCache[<<"d">>].SizeTimeout /\ m.dirStatsCache[<<"d">>].Size = 0
    /\ \E g \in 1..Len(cmds) :
          /\ cmds[g].type = "goroutine" /\ cmds[g].dim = "size" /\ cmds[g].pc = "ended"
          /\ cmds[g].late /\ Len(cmds[g].valChan) = 1


-----------------------------------------------------------------------------
(* Listings that arrive out of order.  The bucket answers every listing;    *)
(* the user walks into directories and back while listings are at work.     *)

OrderKeys == {"down", "enter", "backspace"}

\* loadObjects on a bucket that answers
RunLoadObjectsOk(i) == RunLoadObjects(i) /\ cmds'[i].err.isNil

InitOrder == InitOn(StatsStore)

NextOrder ==
    \/ \E h \in Heights : WindowSize(h)
    \/ \E key \in OrderKeys : BrowserKey(key)
    \/ \E i \in 1..Len(cmds) : Receive(i)
    \/ \E i \in 1..Len(cmds) : RunLoadObjectsOk(i)
    \/ \E i \in 1..Len(cmds) : StatsSize(i)
    \/ \E i \in 1..Len(cmds) : StatsDate(i)

SpecOrder == InitOrder /\ [][NextOrder]_vars

\* a loadObjects is at work or its message waits
ListingInFlight ==
    \E i \in 1..Len(cmds) : cmds[i].type \in {"loadObjects", "objectsLoadedMsg"}

\* the listing loadObjects returns for the prefix
ListingOf(st, path) == SortSlice(ObjectLess, ListObjects(st, ListPrefix(path)))

\* C35: when no listing is in flight and the listing asked for last has
\* succeeded, the entries of the Model are the listing of the current
\* prefix; the result of an earlier listing that arrives after it is not
\* installed.
ObjectsOfCurrentPrefix ==
    ~ListingInFlight => m.objects = ListingOf(store, m.currentPath)

\* the entries are those of a prefix the user has asked for
ObjectsOfSomePrefix ==
    \/ m.objects = <<>>
    \/ \E path \in {<<>>, <<"d">>, <<"d", "/", "e">>} : m.objects = ListingOf(store, path)


\* the keys of the directory entries of the listing of the prefix
DirectoriesOf(st, path) ==
    {obj.Key : obj \in {o \in Range(ListingOf(st, path)) : o.IsDir}}

\* C36: once the user has walked to another directory the cache of
\* statistics holds records of directory entries of the listing of the
\* current prefix only; the statistics of a directory of the listing before,
\* still at work when the walk emptied the cache, are not written to it.
CacheOfCurrentPrefix ==
    DOMAIN m.dirStatsCache \subseteq DirectoriesOf(store, m.currentPath)

\* the walk itself empties the cache
CacheClearedOnWalk ==
    [][\A key \in {"enter", "backspace"} :
          (BrowserKey(key) /\ m'.currentPath # m.currentPath) => m'.dirStatsCache = EmptyMap]_vars


-----------------------------------------------------------------------------
(* The dialogs while commands are at work: a preview, a local listing or a  *)
(* listing is asked for and the user opens a dialog before it arrives.      *)

DialogBrowserKeys == {"down", "enter", "u", "r", "x"}

DialogUploadKeys == {"down", "enter", "esc"}

DialogRenameKeys == {"b", "y", "n", "enter", "esc", "q"}

DialogConfirmKeys == {"b", "y", "n", "enter", "esc", "q"}

InitDialog == InitOn(InitStore)

NextDialog ==
    \/ \E h \in Heights : WindowSize(h)
    \/ \E key \in DialogBrowserKeys : BrowserKey(key)
    \/ \E key \in DialogUploadKeys : UploadKey(key)
    \/ \E key \in DialogRenameKeys : RenameKey(key)
    \/ \E key \in DialogConfirmKeys : ConfirmKey(key)
    \/ PreviewKey("esc")
    \/ \E i \in 1..Len(cmds) : Receive(i)
    \/ \E i \in 1..Len(cmds) : RunLoadObjects(i)
    \/ \E i \in 1..Len(cmds) : RunPreviewFileContent(i)
    \/ \E i \in 1..Len(cmds) : RunLoadLocalFiles(i)
    \/ \E i \in 1..Len(cmds) : RunDeleteFile(i)
    \/ \E i \in 1..Len(cmds) : RunUploadFile(i)

SpecDialog == InitDialog /\ [][NextDialog]_vars

Dialogs == {ViewRename, ViewConfirm}

\* accept, decline and quit
DialogLeaveKeys == {"y", "Y", "enter", "esc", "n", "N", "q", "ctrl+c"}

\* C37: a dialog (rename or confirm) is left only by the user's accept,
\* decline or quit key: no message of a command changes the view while a
\* dialog is open; and outside the confirm dialog the stored action, target
\* and data of the confirmation are empty.
DialogsLeftByKeysOnly ==
    /\ [][(m.viewMode \in Dialogs /\ m'.viewMode # m.viewMode)
             => \E key \in DialogLeaveKeys : RenameKey(key) \/ ConfirmKey(key)]_vars
    /\ [][\A i \in 1..Len(cmds) :
             (Receive(i) /\ m.viewMode \in Dialogs) => m'.viewMode = m.viewMode]_vars
    /\ [](m.viewMode # ViewConfirm
             => m.confirmAction = <<>> /\ m.confirmTarget = <<>> /\ m.confirmData = NilData)

\* what the code keeps: the keys of a dialog leave it only by accept,
\* decline or quit, and the messages other than a preview and a local
\* listing leave the view as it is
DialogsKeptByOtherResults ==
    /\ [][\A key \in DialogRenameKeys \cup DialogConfirmKeys :
             ((RenameKey(key) \/ ConfirmKey(key)) /\ m'.viewMode # m.viewMode)
                 => key \in DialogLeaveKeys]_vars
    /\ [][\A i \in 1..Len(cmds) :
             (Receive(i) /\ m.viewMode \in Dialogs
                         /\ ~(cmds[i].type \in {"previewLoadedMsg", "localFilesLoadedMsg"} /\ cmds[i].err.isNil))
                 => m'.viewMode = m.viewMode]_vars


-----------------------------------------------------------------------------
(* A paste of files marked in more than one directory.  The root holds the  *)
(* file a, the directory d the files d/a and d/b.                           *)

CollideKeys == {"down", "y", "enter", "p"}

InitCollide == InitOn(InitStore)

NextCollide ==
    \/ \E h \in Heights : WindowSize(h)
    \/ \E key \in CollideKeys : BrowserKey(key)
    \/ \E i \in 1..Len(cmds) : Receive(i)
    \/ \E i \in 1..Len(cmds) : RunLoadObjects(i)
    \/ \E i \in 1..Len(cmds) : PasteStep(i)

SpecCollide == InitCollide /\ [][NextCollide]_vars

\* round i of a paste has copied a key it had not yet read
CopiedAnother(i) ==
    /\ PasteStep(i)
    /\ Len(cmds'[i].copied) = Len(cmds[i].copied) + 1
    /\ cmds'[i].sources[Len(cmds'[i].sources)] \notin Range(cmds[i].sources)

\* C38: within one paste distinct marked keys are copied to distinct
\* destination keys: a round that copies another marked key writes to a
\* key that no earlier round of the same paste has written to.
PasteDestsDistinct ==
    [][\A i \in 1..Len(cmds) :
          CopiedAnother(i) => cmds'[i].copied[Len(cmds'[i].copied)] \notin Range(cmds[i].copied)]_vars

\* what the code keeps: the destination of a round is no key of the listing
\* the paste was started on
PasteDestsNotListed ==
    [][\A i \in 1..Len(cmds) :
          CopiedAnother(i) => ~KeyListed(cmds[i].objects, cmds'[i].copied[Len(cmds'[i].copied)])]_vars


-----------------------------------------------------------------------------
(* Marks made while a paste is at work *)

\* C39: the keys a paste has copied or tried to copy are the keys that were
\* marked when "p" was pressed, each of them once and no other key, whatever
\* is marked or unmarked while the paste is at work.
PasteCopiesKeysMarkedAtPress ==
    \A i \in 1..Len(cmds) :
        cmds[i].type = "fileCopiedMsg"
            => /\ Len(cmds[i].sources) = Len(cmds[i].marked)
               /\ \A key \in Range(cmds[i].marked) \cup Range(cmds[i].sources) :
                     Times(cmds[i].sources, key) = Times(cmds[i].marked, key)


-----------------------------------------------------------------------------
(* The printable keys in the rename dialog *)

\* the key is put into the buffer at the cursor, the cursor moves on by one,
\* and nothing else happens
Inserted(key) ==
    /\ m'.renameInput = Before(m.renameInput, m.renameCursor) \o <<key>>
                            \o From(m.renameInput, m.renameCursor)
    /\ m'.renameCursor = m.renameCursor + 1
    /\ m' = [m EXCEPT !.renameInput = m'.renameInput, !.renameCursor = m'.renameCursor]
    /\ cmds' = cmds /\ program' = program

\* C40: in the rename dialog every key of one printable ASCII character is
\* put into the buffer at the cursor and moves the cursor on by one; none of
\* them does anything else or leaves the dialog.
PrintableKeysInserted ==
    [][\A key \in Characters : RenameKey(key) => Inserted(key)]_vars

\* the same of every printable key but q
PrintableKeysButQInserted ==
    [][\A key \in Characters \ {"q"} : RenameKey(key) => Inserted(key)]_vars

====
